---- MODULE Spec2Model ----
(***************************************************************************)
(* Model of the commit-history rewrite engine of auto-commit-rs            *)
(* (src/src/git.rs): rewrite_commit_message, its guard checks, the tip     *)
(* amend and the scripted `git rebase -i` (reword_non_head_commit).         *)
(*                                                                         *)
(* The repository is an append-only, content-addressed object store: a     *)
(* commit's identity is its position in `objects`, and storing a commit    *)
(* whose content (tree, parents, message, time) is already present yields  *)
(* the existing identity, as a hash does.  Each subprocess the code starts *)
(* and each file-system call it makes is one step of the call.             *)
(***************************************************************************)
EXTENDS Integers, Sequences, FiniteSets, TLC

\* ---------------------------------------------------------------- bounds
MaxCommits == 4      \* commits the repository holds before the call
MaxLines   == 3      \* lines of a step list given to the sequence editor
MaxRuns    == 2      \* runs of the sequence-editor script on one step-list file
MaxOrder   == 3      \* entries of the fallback order
MaxIds     == 3      \* presets created in one presets file
PreviewChars == 80    \* characters of a message kept in a cache entry

\* ------------------------------------------------------------ input sets
Trees == {"t1", "t2"}                   \* file-tree contents
NoTree == "none"                        \* index of a repository with no commit
SetupMessages == {<<"a">>}              \* messages of the commits made in setup
\* A message is the sequence of its lines; "" is a blank line and a line
\* that starts with '#' is written "#c".
SuppliedMessages == {<<"a">>, <<"b">>, <<"", "b">>, <<"#c", "b">>, <<>>}
Scripts == {"seq", "msg"}               \* the two helper scripts
Seconds == {0, 1}                       \* clock values commits are stamped with
Pids == {1, 2}                          \* process ids
Invs == {1, 2}                          \* concurrent invocations of the rewrite
AlterRefs == {"r1", "r2"}               \* commit references on the command line

\* A commit reference as the user spells it.
HeadRef == [kind |-> "HEAD", c |-> 0]
Refs == {HeadRef} \cup [kind : {"full", "short"}, c : 1..(MaxCommits + 1)]

VARIABLES
  objects,    \* the object store: sequence of commits
  head,       \* identity HEAD resolves to (0: no commit yet)
  index,      \* the staged tree
  rebasing,   \* TRUE while a rebase is stopped and waiting for the user
  now,        \* the clock, in seconds
  scripts,    \* temp dir: state of each helper script file
  pc,         \* position of the running call
  target,     \* the call's target reference
  message,    \* the call's replacement message
  headId,     \* resolve_commit("HEAD") as read by is_head_commit
  status,     \* exit status of the rewrite subprocess (-1: none yet)
  result,     \* what the call returned
  log,        \* the commands and file operations of the call, in order
  pre,        \* the repository when the call started
  calls,      \* number of calls started (a process run makes one)
  todoIn,     \* the step list handed to the sequence-editor script
  todoOut,    \* the step list the script left
  edited,     \* TRUE once the sequence-editor script has run
  bodies,     \* content of each helper script file (<<>>: never written)
  cmd,        \* arguments and environment of the rebase command (<<>>: none)
  inv,        \* concurrent invocations: process id and position of each
  files,      \* temp dir shared by them: the invocation that wrote each path
  alter,      \* the run of the alter command: its inputs, locals and position
  gitCalls,   \* the calls the command has made, with their arguments, in order
  std,        \* the run of the standard commit command: inputs, locals, position
  fb,         \* a call of call_llm_with_fallback: inputs, locals, position
  pf,         \* the presets file, and the ids deleted from it so far
  sh,         \* a run of the sequence-editor script, command by command
  msgFile,    \* a run of the message-editor script: the file it is handed
  cache       \* the commit cache of the repository: its entries, in order

repo == <<objects, head, index, rebasing, now>>
call == <<pc, target, message, headId, status, result, log, pre, calls>>
steps == <<todoIn, todoOut, edited>>
\* What the steps of rewrite_commit_message other than the rebase leave alone.
conc == <<inv, files>>
\* What one call of rewrite_commit_message never touches.
alt == <<alter, gitCalls>>
\* Variables of the specifications of other modules of the program.
side == <<fb, pf, sh, msgFile, cache>>
rest == <<conc, alt, std, side>>
extra == <<steps, bodies, cmd, rest>>
vars == <<objects, head, index, rebasing, now, scripts,
          pc, target, message, headId, status, result, log, pre, calls,
          todoIn, todoOut, edited, bodies, cmd, inv, files, alter, gitCalls,
          std, fb, pf, sh, msgFile, cache>>
\* The variables of the model of one call.
single == <<repo, scripts, call, steps, bodies, cmd>>

\* ------------------------------------------------------- the repository
Commit(t, ps, m, tm) == [tree |-> t, parents |-> ps, msg |-> m, time |-> tm]

Exists(objs, c) == c \in 1..Len(objs)

\* Identity of commit record r in the store after it has been written.
IdOf(objs, r) ==
  IF \E i \in 1..Len(objs) : objs[i] = r
  THEN CHOOSE i \in 1..Len(objs) : objs[i] = r
  ELSE Len(objs) + 1

\* The store after writing commit record r.
Store(objs, r) ==
  IF \E i \in 1..Len(objs) : objs[i] = r THEN objs ELSE Append(objs, r)

Range(s) == {s[i] : i \in 1..Len(s)}

\* The commits reachable from c by parent links, c included.
RECURSIVE Ancestors(_, _)
Ancestors(objs, c) ==
  IF ~Exists(objs, c) THEN {}
  ELSE {c} \cup UNION {Ancestors(objs, p) : p \in Range(objs[c].parents)}

Snapshot == [objects |-> objects, head |-> head, index |-> index,
             rebasing |-> rebasing]

\* ------------------------------------------------- git, as the code uses it
\* `git rev-parse --verify <ref>^{commit}`: the identity the reference
\* names, 0 when it names no commit.  A full or abbreviated hash names the
\* object with that hash; HEAD names the tip.
Resolve(objs, h, ref) ==
  IF ref.kind = "HEAD" THEN h
  ELSE IF Exists(objs, ref.c) THEN ref.c ELSE 0

\* `git rev-list --parents -n 1 <commit>` prints the commit followed by its
\* parents; the number of whitespace-separated words of that output.
RevListWords(objs, c) == 1 + Len(objs[c].parents)

\* Mutant of IsAncestor: only the existence of the commit is tested.
IsAncestorExists(objs, c, h) == Exists(objs, c)

\* `git merge-base --is-ancestor <commit> HEAD`: a commit is its own ancestor.
IsAncestor(objs, c, h) == c \in Ancestors(objs, h)

\* Three-way merge of file trees.
Merge3(base, ours, theirs) ==
  IF theirs = base THEN ours
  ELSE IF ours = base THEN theirs
  ELSE IF ours = theirs THEN ours
  ELSE "conflict"

IsBlank(l) == l = ""
IsComment(l) == l = "#c"

RECURSIVE DropLeadingBlank(_)
DropLeadingBlank(m) ==
  IF m # <<>> /\ IsBlank(Head(m)) THEN DropLeadingBlank(Tail(m)) ELSE m

RECURSIVE DropTrailingBlank(_)
DropTrailingBlank(m) ==
  IF m # <<>> /\ IsBlank(m[Len(m)])
  THEN DropTrailingBlank(SubSeq(m, 1, Len(m) - 1)) ELSE m

RECURSIVE CollapseBlank(_)
CollapseBlank(m) ==
  IF Len(m) < 2 THEN m
  ELSE IF IsBlank(m[1]) /\ IsBlank(m[2]) THEN CollapseBlank(Tail(m))
  ELSE <<Head(m)>> \o CollapseBlank(Tail(m))

\* git's --cleanup=whitespace, the default when the message comes from -m.
CleanupWhitespace(m) == CollapseBlank(DropTrailingBlank(DropLeadingBlank(m)))

\* git's --cleanup=strip, the default when the message comes from an editor.
CleanupStrip(m) == CleanupWhitespace(SelectSeq(m, LAMBDA l : ~IsComment(l)))

\* Timestamps a commit written at clock value tm can carry.
Times(tm) == {tm, tm + 1} \cap Seconds

\* --------------------------------------------- building the repository
\* tests/common/mod.rs commit_file: write the file, git add, git commit -m.
\* The commit is stamped with the current second; a commit whose content
\* and second are those of an existing commit would be that commit, so
\* such a commit is made one second later.
CommitFile(t, m) ==
  /\ pc = "idle" /\ calls = 0 /\ ~rebasing
  /\ Len(objects) < MaxCommits
  /\ IF head = 0 THEN TRUE ELSE objects[head].tree # t
  /\ \E tm \in Times(now) :
       LET ps == IF head = 0 THEN <<>> ELSE <<head>>
           r == Commit(t, ps, m, tm)
       IN /\ (tm = now) = ~Exists(objects, IdOf(objects, Commit(t, ps, m, now)))
          /\ objects' = Store(objects, r)
          /\ head' = IdOf(objects, r)
          /\ index' = t
          /\ now' = tm
  /\ UNCHANGED <<rebasing, scripts, call, extra>>

\* tests/git_tests.rs: git checkout [--detach] <commit>.
Checkout(c) ==
  /\ pc = "idle" /\ calls = 0 /\ ~rebasing
  /\ head # 0 /\ Exists(objects, c) /\ c # head
  /\ index = objects[head].tree
  /\ head' = c
  /\ index' = objects[c].tree
  /\ UNCHANGED <<objects, rebasing, now, scripts, call, extra>>

\* The common ancestors of a and b that are not ancestors of another one.
MergeBases(objs, a, b) ==
  LET common == Ancestors(objs, a) \cap Ancestors(objs, b)
  IN {x \in common : \A y \in common : x = y \/ x \notin Ancestors(objs, y)}

\* tests/git_tests.rs: git merge --no-ff <commit> -m <message>.
MergeNoFf(c, m) ==
  /\ pc = "idle" /\ calls = 0 /\ ~rebasing
  /\ Len(objects) < MaxCommits
  /\ head # 0 /\ Exists(objects, c)
  /\ ~IsAncestor(objects, c, head)
  /\ index = objects[head].tree
  /\ \E b \in MergeBases(objects, head, c) :
       LET t == Merge3(objects[b].tree, objects[head].tree, objects[c].tree)
           r == Commit(t, <<head, c>>, m, now)
       IN /\ t # "conflict"
          /\ objects' = Store(objects, r)
          /\ head' = IdOf(objects, r)
          /\ index' = t
  /\ UNCHANGED <<rebasing, now, scripts, call, extra>>

\* tests/git_tests.rs: write a file and git add it, without committing.
Stage(t) ==
  /\ pc = "idle" /\ calls = 0 /\ ~rebasing
  /\ index # t
  /\ index' = t
  /\ UNCHANGED <<objects, head, rebasing, now, scripts, call, extra>>

\* ------------------------------------------------ rewrite_commit_message
Logged(op, out) == Append(log, [op |-> op, out |-> out])

\* The call returns res.
Return(res) == pc' = "returned" /\ result' = res

\* A subprocess that could not be started: `.context(..)?` returns the error.
SpawnFails(op) ==
  /\ log' = Logged(op, -1)
  /\ Return("ToolError")

Call(ref, m) ==
  /\ pc = "idle"
  /\ calls = 0
  /\ pc' = "rcm_verify"
  /\ target' = ref
  /\ message' = m
  /\ headId' = 0
  /\ status' = -1
  /\ result' = "none"
  /\ log' = <<>>
  /\ pre' = Snapshot
  /\ calls' = calls + 1
  /\ UNCHANGED <<repo, scripts, extra>>

\* Mutant of VerifySucceeded: the exit status is not looked at.
VerifyUnchecked(id) == TRUE

\* status.success() of `git rev-parse --verify`: the reference named a commit.
VerifySucceeded(id) == id # 0

\* ensure_commit_exists, called at position p; on success the call goes on
\* at position q.
EnsureCommitExists(p, q) ==
  /\ pc = p
  /\ \/ SpawnFails(p)
     \/ /\ ~VerifySucceeded(Resolve(objects, head, target))
        /\ log' = Logged(p, 0)
        /\ Return("UnknownCommit")
     \/ /\ VerifySucceeded(Resolve(objects, head, target))
        /\ log' = Logged(p, 1)
        /\ pc' = q
        /\ UNCHANGED result
  /\ UNCHANGED <<repo, scripts, target, message, headId, status, pre, calls, extra>>

RcmVerify == EnsureCommitExists("rcm_verify", "ihc_verify")

\* is_head_commit: ensure_commit_exists, then two resolve_commit calls.
IhcVerify == EnsureCommitExists("ihc_verify", "ihc_head")

\* resolve_commit: a reference that does not resolve is an error.
IhcResolveHead ==
  /\ pc = "ihc_head"
  /\ \/ SpawnFails("ihc_head") /\ UNCHANGED headId
     \/ /\ log' = Logged("ihc_head", head)
        /\ headId' = head
        /\ IF head = 0
           THEN Return("ResolveFailed")
           ELSE pc' = "ihc_target" /\ UNCHANGED result
  /\ UNCHANGED <<repo, scripts, target, message, status, pre, calls, extra>>

\* Mutant of SameIdentity: the spelling of the reference is compared.
SameSpelling(h, t, ref) == ref.kind = "HEAD"

\* The comparison of is_head_commit: the two resolved identities.
SameIdentity(h, t, ref) == h = t

\* Where rewrite_commit_message goes after is_head_commit.
AfterIsHead(isHead) == IF isHead THEN "amend" ELSE "cim_verify"

IhcResolveTarget ==
  /\ pc = "ihc_target"
  /\ \/ SpawnFails("ihc_target")
     \/ LET t == Resolve(objects, head, target)
        IN /\ log' = Logged("ihc_target", t)
           /\ IF t = 0
              THEN Return("ResolveFailed")
              ELSE /\ pc' = AfterIsHead(SameIdentity(headId, t, target))
                   /\ UNCHANGED result
  /\ UNCHANGED <<repo, scripts, target, message, headId, status, pre, calls, extra>>

\* Tree of the first parent of commit c ("none" for a root commit).
ParentTree(objs, c) ==
  IF objs[c].parents = <<>> THEN NoTree ELSE objs[objs[c].parents[1]].tree

\* `git commit --amend -m <message>` refuses an empty message, and refuses
\* to turn a non-merge commit into an empty one.
AmendRefused(objs, h, idx, m) ==
  \/ CleanupWhitespace(m) = <<>>
  \/ Len(objs[h].parents) <= 1 /\ idx = ParentTree(objs, h)

\* Mutant of AmendedCommit: the commit is added on top of the old tip, as
\* `git commit -m <message>` does.
CommittedOnTop(objs, h, idx, m, tm) == Commit(idx, <<h>>, CleanupWhitespace(m), tm)

\* The commit `git commit --amend -m <message>` writes: the index becomes
\* its tree, the parents are those of the old tip.
AmendedCommit(objs, h, idx, m, tm) ==
  Commit(idx, objs[h].parents, CleanupWhitespace(m), tm)

\* What the tip path returns, from the exit status of the amend.
AmendResult(st) == IF st # 0 THEN "AmendFailed" ELSE "Ok"

\* Mutant of AfterAmend: a successful amend falls through to the other checks.
AfterAmendFallThrough(st) == IF st # 0 THEN "returned" ELSE "cim_verify"

\* Where rewrite_commit_message goes after the amend: it returns.
AfterAmend(st) == "returned"

\* The tip path of rewrite_commit_message.
Amend ==
  /\ pc = "amend"
  /\ \/ SpawnFails("amend") /\ UNCHANGED repo
     \/ /\ AmendRefused(objects, head, index, message)
        /\ log' = Logged("amend", 1)
        /\ pc' = AfterAmend(1)
        /\ result' = IF pc' = "returned" THEN AmendResult(1) ELSE result
        /\ UNCHANGED repo
     \/ /\ ~AmendRefused(objects, head, index, message)
        /\ \E tm \in Times(now) :
             LET r == AmendedCommit(objects, head, index, message, tm)
             IN /\ objects' = Store(objects, r)
                /\ head' = IdOf(objects, r)
                /\ now' = tm
        /\ log' = Logged("amend", 0)
        /\ pc' = AfterAmend(0)
        /\ result' = IF pc' = "returned" THEN AmendResult(0) ELSE result
        /\ UNCHANGED <<index, rebasing>>
  /\ UNCHANGED <<scripts, target, message, headId, status, pre, calls, extra>>

\* commit_is_merge: ensure_commit_exists, then git rev-list --parents.
CimVerify == EnsureCommitExists("cim_verify", "cim_parents")

\* parent_count of commit_is_merge: the words of the output less one,
\* saturating at zero.
ParentCount(words) == IF words >= 1 THEN words - 1 ELSE 0

\* Mutant of CommitIsMerge: the threshold is one too high.
CommitIsMergeAboveTwo(words) == ParentCount(words) > 2

CommitIsMerge(words) == ParentCount(words) > 1

\* Where rewrite_commit_message goes after commit_is_merge.
AfterIsMerge(isMerge) == IF isMerge THEN "returned" ELSE "anc"

CimParents ==
  /\ pc = "cim_parents"
  /\ \/ SpawnFails("cim_parents")
     \/ LET t == Resolve(objects, head, target)
            w == IF t = 0 THEN 0 ELSE RevListWords(objects, t)
        IN /\ log' = Logged("cim_parents", ParentCount(w))
           /\ IF t = 0
              THEN Return("RevListFailed")
              ELSE /\ pc' = AfterIsMerge(CommitIsMerge(w))
                   /\ result' = IF pc' = "returned"
                                THEN "UnsupportedMerge" ELSE result
  /\ UNCHANGED <<repo, scripts, target, message, headId, status, pre, calls, extra>>

\* Mutant of AfterAncestor: the outcome of the ancestry check is dropped.
AfterAncestorUnchecked(isAnc) == "rw_write_seq"

\* Where rewrite_commit_message goes after ensure_ancestor_of_head.
AfterAncestor(isAnc) == IF isAnc THEN "rw_write_seq" ELSE "returned"

\* ensure_ancestor_of_head.
EnsureAncestorOfHead ==
  /\ pc = "anc"
  /\ \/ SpawnFails("anc")
     \/ LET t == Resolve(objects, head, target)
            a == t # 0 /\ head # 0 /\ IsAncestor(objects, t, head)
        IN /\ log' = Logged("anc", IF a THEN 1 ELSE 0)
           /\ pc' = AfterAncestor(a)
           /\ result' = IF pc' = "returned" THEN "NotOnBranch" ELSE result
  /\ UNCHANGED <<repo, scripts, target, message, headId, status, pre, calls, extra>>

\* ------------------------------------------------ reword_non_head_commit
\* State of a script file after a successful fs::write: the content is
\* replaced, the mode of an existing file is kept.
WrittenState(st) == IF st = "absent" THEN "written" ELSE st

\* The text write_sequence_editor_script writes.
SeqEditorBody ==
  << "#!/bin/sh",
     "set -e",
     "todo=\"$1\"",
     "tmp=\"${todo}.cgen\"",
     "first=1",
     "",
     "while IFS= read -r line; do",
     "  if [ \"$first\" -eq 1 ] && printf '%s\\n' \"$line\" | grep -q '^pick '; then",
     "    printf '%s\\n' \"$line\" | sed 's/^pick /reword /' >> \"$tmp\"",
     "    first=0",
     "  else",
     "    printf '%s\\n' \"$line\" >> \"$tmp\"",
     "  fi",
     "done < \"$todo\"",
     "",
     "mv \"$tmp\" \"$todo\"" >>

\* The text write_message_editor_script writes.
MsgEditorBody ==
  << "#!/bin/sh",
     "set -e",
     "msg_file=\"$1\"",
     "printf '%s\\n' \"$CGEN_NEW_MESSAGE\" > \"$msg_file\"" >>

\* Mutant of ScriptBody: the message is written into the message editor.
ScriptBodyWithMessage(f, m) ==
  IF f = "seq" THEN SeqEditorBody ELSE MsgEditorBody \o m

\* The text of helper script f in a call whose message is m.
ScriptBody(f, m) == IF f = "seq" THEN SeqEditorBody ELSE MsgEditorBody

\* Mutant of AfterIo: a failed file operation does not end the call.
AfterIoIgnored(ok, q) == q

\* The `?` after a file operation: the call goes on at q when it succeeded
\* and returns when it failed.
AfterIo(ok, q) == IF ok THEN q ELSE "returned"

\* The error a failed file operation makes the call return.
IoResult(p, res) == IF p = "returned" THEN "IoError" ELSE res

\* fs::write of helper script f at position p; `?` returns on failure.
WriteScript(f, p, q) ==
  /\ pc = p
  /\ \/ /\ log' = Logged(p, 0)
        /\ pc' = AfterIo(FALSE, q)
        /\ result' = IoResult(pc', result)
        /\ UNCHANGED <<scripts, bodies>>
     \/ /\ log' = Logged(p, 1)
        /\ scripts' = [scripts EXCEPT ![f] = WrittenState(@)]
        /\ bodies' = [bodies EXCEPT ![f] = ScriptBody(f, message)]
        /\ pc' = AfterIo(TRUE, q)
        /\ UNCHANGED result
  /\ UNCHANGED <<repo, target, message, headId, status, pre, calls, steps, cmd, rest>>

\* make_executable (unix): set_permissions 0o700; `?` returns on failure.
MakeExecutable(f, p, q) ==
  /\ pc = p
  /\ \/ /\ log' = Logged(p, 0)
        /\ pc' = AfterIo(FALSE, q)
        /\ result' = IoResult(pc', result)
        /\ UNCHANGED scripts
     \/ /\ log' = Logged(p, 1)
        /\ scripts' = [scripts EXCEPT ![f] = "exec"]
        /\ pc' = AfterIo(TRUE, q)
        /\ UNCHANGED result
  /\ UNCHANGED <<repo, target, message, headId, status, pre, calls, extra>>

WriteSeqScript == WriteScript("seq", "rw_write_seq", "rw_chmod_seq")
ChmodSeqScript == MakeExecutable("seq", "rw_chmod_seq", "rw_write_msg")
WriteMsgScript == WriteScript("msg", "rw_write_msg", "rw_chmod_msg")
ChmodMsgScript == MakeExecutable("msg", "rw_chmod_msg", "rw_rebase")

\* The step list git generates for `git rebase -i <upstream>`: one pick
\* line for each non-merge commit of upstream..HEAD, ancestors first,
\* followed by git's comment block.
TodoCommits(objs, h, up) ==
  {c \in Ancestors(objs, h) \ Ancestors(objs, up) : Len(objs[c].parents) <= 1}

PickLine(c) == [action |-> "pick", c |-> c]
CommentLine == [action |-> "#", c |-> 0]

TodoLists(objs, h, up) ==
  LET S == TodoCommits(objs, h, up)
      n == Cardinality(S)
      orders == {s \in [1..n -> S] :
                   /\ \A i, j \in 1..n : i # j => s[i] # s[j]
                   /\ \A i, j \in 1..n : i < j => s[j] \notin Ancestors(objs, s[i])}
  IN {[i \in 1..(n + 1) |-> IF i <= n THEN PickLine(s[i]) ELSE CommentLine] :
        s \in orders}

\* Mutant of SeqEditorLoop: `first` is never cleared, so every line that
\* starts with "pick " is rewritten.
RECURSIVE SeqEditorLoopEveryPick(_, _)
SeqEditorLoopEveryPick(lines, first) ==
  IF lines = <<>> THEN <<>>
  ELSE IF first /\ Head(lines).action = "pick"
  THEN <<[Head(lines) EXCEPT !.action = "reword"]>>
         \o SeqEditorLoopEveryPick(Tail(lines), first)
  ELSE <<Head(lines)>> \o SeqEditorLoopEveryPick(Tail(lines), first)

\* The loop of the sequence-editor script: the first line that starts with
\* "pick " has that word replaced by "reword", every other line is copied.
RECURSIVE SeqEditorLoop(_, _)
SeqEditorLoop(lines, first) ==
  IF lines = <<>> THEN <<>>
  ELSE IF first /\ Head(lines).action = "pick"
  THEN <<[Head(lines) EXCEPT !.action = "reword"]>> \o SeqEditorLoop(Tail(lines), FALSE)
  ELSE <<Head(lines)>> \o SeqEditorLoop(Tail(lines), first)

SeqEditorScript(lines) == SeqEditorLoop(lines, TRUE)

\* Mutant of MsgEditorScript: the redirection appends (>>) to the file.
MsgEditorAppend(old, m) == old \o (IF m = <<>> THEN <<"">> ELSE m)

\* The message-editor script: printf '%s\n' "$CGEN_NEW_MESSAGE" > "$1".
MsgEditorScript(old, m) == IF m = <<>> THEN <<"">> ELSE m

\* Replaying the step list on top of tip.  The result is the store, the new
\* tip and whether the replay ran to the end; it stops at a conflict, at a
\* commit that becomes empty and at an empty message.
RECURSIVE Replay(_, _, _, _, _)
Replay(objs, tip, todo, m, tm) ==
  IF todo = <<>> THEN [objects |-> objs, tip |-> tip, ok |-> TRUE]
  ELSE
    LET line == Head(todo)
        c == line.c
    IN IF line.action \notin {"pick", "reword"}
       THEN Replay(objs, tip, Tail(todo), m, tm)
       ELSE
         LET ff == objs[c].parents = <<tip>>
             t == IF ff THEN objs[c].tree
                  ELSE Merge3(ParentTree(objs, c), objs[tip].tree, objs[c].tree)
             stopped == ~ff /\ (t = "conflict" \/ t = objs[tip].tree)
             picked == Commit(t, <<tip>>, objs[c].msg, tm)
             objs1 == IF ff THEN objs ELSE Store(objs, picked)
             tip1 == IF ff THEN c ELSE IdOf(objs, picked)
         IN IF stopped THEN [objects |-> objs, tip |-> tip, ok |-> FALSE]
            ELSE IF line.action = "pick"
            THEN Replay(objs1, tip1, Tail(todo), m, tm)
            ELSE
              LET text == CleanupStrip(MsgEditorScript(objs1[tip1].msg, m))
                  reworded == Commit(t, <<tip>>, text, tm)
              IN IF text = <<>>
                 THEN [objects |-> objs1, tip |-> tip1, ok |-> FALSE]
                 ELSE Replay(Store(objs1, reworded), IdOf(objs1, reworded),
                             Tail(todo), m, tm)

\* `git rebase -i <target>^` does not start when a rebase is in progress,
\* when <target>^ names no commit (the target is a root commit), when the
\* index has staged changes, or when an editor script cannot be executed.
RebaseRefused(objs, h, idx, reb, t, scr) ==
  \/ reb
  \/ objs[t].parents = <<>>
  \/ idx # objs[h].tree
  \/ \E f \in Scripts : scr[f] # "exec"

\* Mutant of Upstream: the range starts one commit further down.
UpstreamGrandparent(objs, t) ==
  LET p == objs[t].parents[1]
  IN IF objs[p].parents = <<>> THEN p ELSE objs[p].parents[1]

\* The commit `<target>^` names: the target's first parent.
Upstream(objs, t) == objs[t].parents[1]

\* The process a call runs in.
ThisPid == CHOOSE p \in Pids : TRUE

\* Mutant of ScriptPath: the name does not carry the process id.
ScriptPathFixed(f, pid) == <<"tmp", "/", <<"cgen", f, "editor", "sh">>>>

\* temp_dir().join(format!("cgen-<f>-editor-<pid>.sh")), as path components.
ScriptPath(f, pid) == <<"tmp", "/", <<"cgen", f, "editor", pid, "sh">>>>

\* script_command: the path with every backslash turned into a slash.
ScriptCommand(path) ==
  [i \in DOMAIN path |-> IF path[i] = "\\" THEN "/" ELSE path[i]]

\* The rebase command of a call with target ref and message m: its
\* arguments and the environment variables the call adds.
RebaseCommand(ref, m) ==
  [args |-> <<"rebase", "-i", <<ref, "^">>>>,
   env |-> [GIT_SEQUENCE_EDITOR |-> ScriptCommand(ScriptPath("seq", ThisPid)),
            GIT_EDITOR |-> ScriptCommand(ScriptPath("msg", ThisPid)),
            CGEN_NEW_MESSAGE |-> m]]

\* cmd.status() of reword_non_head_commit: the rebase runs to its exit.
Rebase ==
  /\ pc = "rw_rebase"
  /\ cmd' = RebaseCommand(target, message)
  /\ \/ SpawnFails("rw_rebase") /\ UNCHANGED <<repo, status, steps>>
     \/ /\ RebaseRefused(objects, head, index, rebasing,
                         Resolve(objects, head, target), scripts)
        /\ log' = Logged("rw_rebase", 1)
        /\ status' = 1
        /\ pc' = "rw_rm_seq"
        /\ UNCHANGED <<repo, result, steps>>
     \/ /\ ~RebaseRefused(objects, head, index, rebasing,
                          Resolve(objects, head, target), scripts)
        /\ LET up == Upstream(objects, Resolve(objects, head, target))
           IN \E todo \in TodoLists(objects, head, up), tm \in Times(now) :
                LET r == Replay(objects, up, SeqEditorScript(todo), message, tm)
                IN /\ objects' = r.objects
                   /\ head' = r.tip
                   /\ index' = r.objects[r.tip].tree
                   /\ rebasing' = ~r.ok
                   /\ now' = tm
                   /\ status' = IF r.ok THEN 0 ELSE 1
                   /\ log' = Logged("rw_rebase", status')
                   /\ todoIn' = todo
                   /\ todoOut' = SeqEditorScript(todo)
                   /\ edited' = TRUE
        /\ pc' = "rw_rm_seq"
        /\ UNCHANGED result
  /\ UNCHANGED <<scripts, target, message, headId, pre, calls, bodies, rest>>

\* Mutant of RemovedState: the removal leaves the file in place.
RemovedStateKept(st) == st

\* State of a script file after fs::remove_file succeeded.
RemovedState(st) == "absent"

\* Mutant of AfterRemove: a failed removal ends the call.
AfterRemoveChecked(ok, q) == IF ok THEN q ELSE "returned"

\* `let _ =`: the call goes on at q whatever the removal returned.
AfterRemove(ok, q) == q

\* `let _ = fs::remove_file(..)`: the outcome is ignored.
RemoveFile(f, p, q) ==
  /\ pc = p
  /\ \/ /\ log' = Logged(p, 0)
        /\ pc' = AfterRemove(FALSE, q)
        /\ UNCHANGED scripts
     \/ /\ log' = Logged(p, 1)
        /\ pc' = AfterRemove(TRUE, q)
        /\ scripts' = [scripts EXCEPT ![f] = RemovedState(@)]
  /\ UNCHANGED <<repo, target, message, headId, status, result, pre, calls, extra>>

RemoveSeqScript == RemoveFile("seq", "rw_rm_seq", "rw_rm_msg")
RemoveMsgScript == RemoveFile("msg", "rw_rm_msg", "rw_ret")

\* Mutant of RewordResult: the exit status is not looked at.
RewordResultIgnored(st) == "Ok"

\* The result of reword_non_head_commit, from the exit status.
RewordResult(st) == IF st # 0 THEN "RewriteConflict" ELSE "Ok"

RewordReturn ==
  /\ pc = "rw_ret"
  /\ Return(RewordResult(status))
  /\ UNCHANGED <<repo, scripts, target, message, headId, status, log, pre, calls, extra>>

\* ---------------------------------------------------------- specification
InitCall ==
  /\ objects = <<>>
  /\ head = 0
  /\ index = NoTree
  /\ rebasing = FALSE
  /\ now = 0
  /\ scripts = [f \in Scripts |-> "absent"]
  /\ pc = "idle"
  /\ target = HeadRef
  /\ message = <<>>
  /\ headId = 0
  /\ status = -1
  /\ result = "none"
  /\ log = <<>>
  /\ pre = [objects |-> <<>>, head |-> 0, index |-> NoTree, rebasing |-> FALSE]
  /\ calls = 0

\* No rebase command has been built and no step list generated.
InitRebase ==
  /\ todoIn = <<>>
  /\ todoOut = <<>>
  /\ edited = FALSE
  /\ bodies = [f \in Scripts |-> <<>>]
  /\ cmd = <<>>

\* Every helper-script path of every process, and a temp dir without them.
AllPaths == {ScriptPath(f, pid) : f \in Scripts, pid \in Pids}
NoFiles == [path \in AllPaths |-> 0]

\* The locals of run_alter before it has run, for the given inputs.
AlterLocals(commits, key, dry, track, push) ==
  [pc |-> "ensure_api_key", commits |-> commits, api_key |-> key,
   dry_run |-> dry, track |-> track, post_commit_push |-> push,
   target |-> "", diff |-> <<>>, target_is_head |-> FALSE,
   target_is_pushed |-> FALSE, final_msg |-> "", result |-> "none"]

\* The locals of run_standard_commit before it has run, for the given
\* inputs; warn: the staged-files warning is enabled and over its threshold.
StdLocals(key, dry, track, tag, push, warn) ==
  [pc |-> "ensure_api_key", api_key |-> key, dry_run |-> dry, track |-> track,
   tag |-> tag, post_commit_push |-> push, warn |-> warn,
   final_msg |-> "", result |-> "none"]

\* No standard commit command is running.
NoStd == [StdLocals("", FALSE, FALSE, FALSE, "never", FALSE) EXCEPT !.pc = "off"]

\* The sequence-editor script is not running; todo: the step-list file,
\* tmp: the side file "${todo}.cgen" (hasTmp: it exists), i: lines read.
NoScript ==
  [pc |-> "off", todo |-> <<>>, orig |-> <<>>, tmp |-> <<>>, hasTmp |-> FALSE,
   i |-> 0, first |-> TRUE, runs |-> 0]

\* The message-editor script has not been handed a file; old: the lines of
\* the file when the script starts, lines: its lines now, env: the value of
\* CGEN_NEW_MESSAGE.
NoMsgFile == [pc |-> "off", old |-> <<>>, lines |-> <<>>, env |-> <<>>]

\* Preset ids a presets file may name, and what the file holds for an id:
\* no preset, a preset whose provider, model, API key and API URL are those
\* of the primary configuration, or a preset that differs in one of them.
FbIds == 1..3
PresetKinds == {"none", "same", "other"}

\* The locals of call_llm_with_fallback before it has run; enabled:
\* cfg.fallback_enabled, order: fallback.order of the presets file, presets:
\* the preset found for each id, i: position in the order, called: the calls
\* of call_llm_inner so far, each with the position and id of its preset
\* (0 for the primary configuration) and its outcome.
FallbackLocals(enabled, order, presets) ==
  [pc |-> "primary", enabled |-> enabled, order |-> order, presets |-> presets,
   i |-> 0, called |-> <<>>, result |-> "none", used |-> <<>>]

\* call_llm_with_fallback is not running.
NoFallback == [FallbackLocals(FALSE, <<>>, [id \in FbIds |-> "none"]) EXCEPT !.pc = "off"]

\* PresetsFile::default(), with the ids delete_preset has removed so far.
EmptyPresetsFile == [next_id |-> 0, presets |-> <<>>, order |-> <<>>, deleted |-> {}]

\* No alter command is running.
NoAlter == [AlterLocals(<<>>, "", FALSE, FALSE, "never") EXCEPT !.pc = "off"]

Init ==
  /\ InitCall
  /\ InitRebase
  /\ inv = [i \in Invs |-> [pid |-> ThisPid, pc |-> "idle"]]
  /\ files = NoFiles
  /\ alter = NoAlter
  /\ gitCalls = <<>>
  /\ std = NoStd
  /\ fb = NoFallback
  /\ pf = EmptyPresetsFile
  /\ sh = NoScript
  /\ msgFile = NoMsgFile
  /\ cache = <<>>

Next ==
  \/ \E t \in Trees, m \in SetupMessages : CommitFile(t, m)
  \/ \E c \in 1..MaxCommits : Checkout(c)
  \/ \E c \in 1..MaxCommits, m \in SetupMessages : MergeNoFf(c, m)
  \/ \E t \in Trees : Stage(t)
  \/ \E ref \in Refs, m \in SuppliedMessages : Call(ref, m)
  \/ RcmVerify
  \/ IhcVerify
  \/ IhcResolveHead
  \/ IhcResolveTarget
  \/ Amend
  \/ CimVerify
  \/ CimParents
  \/ EnsureAncestorOfHead
  \/ WriteSeqScript
  \/ ChmodSeqScript
  \/ WriteMsgScript
  \/ ChmodMsgScript
  \/ Rebase
  \/ RemoveSeqScript
  \/ RemoveMsgScript
  \/ RewordReturn

Spec == Init /\ [][Next]_vars

\* ------------------------------------- the sequence-editor script alone
\* Keywords a line of a step list starts with: "pick", its abbreviation "p"
\* (git writes it when rebase.abbreviateCommands is set), another command,
\* and '#' for a comment line.
StepActions == {"pick", "p", "exec", "#"}
StepLines == [action : StepActions, c : 1..2]
StepLists == UNION {[1..n -> StepLines] : n \in 1..MaxLines}

InitSteps ==
  /\ InitCall
  /\ todoIn \in StepLists
  /\ todoOut = <<>>
  /\ edited = FALSE
  /\ bodies = [f \in Scripts |-> <<>>]
  /\ cmd = <<>>
  /\ inv = [i \in Invs |-> [pid |-> ThisPid, pc |-> "idle"]]
  /\ files = NoFiles
  /\ alter = NoAlter
  /\ gitCalls = <<>>
  /\ std = NoStd
  /\ fb = NoFallback
  /\ pf = EmptyPresetsFile
  /\ sh = NoScript
  /\ msgFile = NoMsgFile
  /\ cache = <<>>

\* One run of the script on the file git names in "$1".
RunSeqEditor ==
  /\ ~edited
  /\ todoOut' = SeqEditorScript(todoIn)
  /\ edited' = TRUE
  /\ UNCHANGED <<repo, scripts, call, todoIn, bodies, cmd, rest>>

NextSteps == RunSeqEditor

SpecSteps == InitSteps /\ [][NextSteps]_vars

\* --------------------------- the sequence-editor script, command by command
\* The script is started on a step-list file; no side file exists.
InitScript ==
  /\ InitCall
  /\ InitRebase
  /\ inv = [i \in Invs |-> [pid |-> ThisPid, pc |-> "idle"]]
  /\ files = NoFiles
  /\ alter = NoAlter
  /\ gitCalls = <<>>
  /\ std = NoStd
  /\ fb = NoFallback
  /\ pf = EmptyPresetsFile
  /\ msgFile = NoMsgFile
  /\ cache = <<>>
  /\ \E l \in StepLists :
       sh = [NoScript EXCEPT !.pc = "loop", !.todo = l, !.orig = l, !.runs = 1]

\* What one iteration of the loop appends to the side file.
SeqEditorLine(line, first) ==
  IF first /\ line.action = "pick" THEN [line EXCEPT !.action = "reword"] ELSE line

\* One iteration of `while IFS= read -r line; do ... >> "$tmp"; done`: the
\* line is appended to the side file; a command that fails ends the script
\* (set -e) and leaves both files as they are.
ScriptReadLine ==
  /\ sh.pc = "loop" /\ sh.i < Len(sh.todo)
  /\ \/ sh' = [sh EXCEPT !.i = @ + 1,
                         !.tmp = Append(@, SeqEditorLine(sh.todo[sh.i + 1], sh.first)),
                         !.hasTmp = TRUE,
                         !.first = @ /\ sh.todo[sh.i + 1].action # "pick"]
     \/ sh' = [sh EXCEPT !.pc = "failed"]
  /\ UNCHANGED <<single, conc, alt, std, fb, pf, msgFile, cache>>

\* `mv "$tmp" "$todo"` after the loop: on success the side file replaces
\* the step list in one rename.
ScriptMv ==
  /\ sh.pc = "loop" /\ sh.i = Len(sh.todo) /\ sh.hasTmp
  /\ \/ sh' = [sh EXCEPT !.pc = "done", !.todo = sh.tmp, !.tmp = <<>>,
                         !.hasTmp = FALSE]
     \/ sh' = [sh EXCEPT !.pc = "failed"]
  /\ UNCHANGED <<single, conc, alt, std, fb, pf, msgFile, cache>>

\* The script is run again on the same step-list file after a run that
\* failed: the side file has the same name and nothing removed it.
ScriptRunAgain ==
  /\ sh.pc = "failed" /\ sh.runs < MaxRuns
  /\ sh' = [sh EXCEPT !.pc = "loop", !.i = 0, !.first = TRUE, !.runs = @ + 1]
  /\ UNCHANGED <<single, conc, alt, std, fb, pf, msgFile, cache>>

NextScript ==
  \/ ScriptReadLine
  \/ ScriptMv
  \/ ScriptRunAgain

SpecScript == InitScript /\ [][NextScript]_vars

\* ------------------------------------- the message-editor script alone
\* What git puts in the file it hands to the editor: the message of the
\* commit and comment lines.
PlaceholderLines == {"a", "", "#c"}
Placeholders == UNION {[1..n -> PlaceholderLines] : n \in 0..MaxLines}

InitMsg ==
  /\ InitCall
  /\ InitRebase
  /\ inv = [i \in Invs |-> [pid |-> ThisPid, pc |-> "idle"]]
  /\ files = NoFiles
  /\ alter = NoAlter
  /\ gitCalls = <<>>
  /\ std = NoStd
  /\ fb = NoFallback
  /\ pf = EmptyPresetsFile
  /\ sh = NoScript
  /\ cache = <<>>
  /\ \E old \in Placeholders, m \in SuppliedMessages :
       msgFile = [pc |-> "start", old |-> old, lines |-> old, env |-> m]

\* One run of the script on the file git names in "$1": the redirection
\* truncates the file and printf writes the message and a newline.  When
\* the file cannot be opened it is left as it was, and when the write
\* fails it is left empty; set -e ends the script with that failure.
RunMsgEditor ==
  /\ msgFile.pc = "start"
  /\ \/ msgFile' = [msgFile EXCEPT !.pc = "done",
                                   !.lines = MsgEditorScript(@, msgFile.env)]
     \/ msgFile' = [msgFile EXCEPT !.pc = "failed"]
     \/ msgFile' = [msgFile EXCEPT !.pc = "failed", !.lines = <<>>]
  /\ UNCHANGED <<single, conc, alt, std, fb, pf, sh, cache>>

NextMsg == RunMsgEditor

SpecMsg == InitMsg /\ [][NextMsg]_vars

\* ------------------------------------ the tip path, called a second time
\* The repository of the tests before the first call: two commits on one
\* branch, either of them checked out, and any file staged.
InitRetry ==
  /\ objects = <<Commit("t1", <<>>, <<"a">>, 0), Commit("t2", <<1>>, <<"a">>, 0)>>
  /\ head \in 1..2
  /\ index \in Trees
  /\ rebasing = FALSE
  /\ now = 0
  /\ scripts = [f \in Scripts |-> "absent"]
  /\ pc = "idle"
  /\ target = HeadRef
  /\ message = <<>>
  /\ headId = 0
  /\ status = -1
  /\ result = "none"
  /\ log = <<>>
  /\ pre = [objects |-> <<>>, head |-> 0, index |-> NoTree, rebasing |-> FALSE]
  /\ calls = 0
  /\ InitRebase
  /\ inv = [i \in Invs |-> [pid |-> ThisPid, pc |-> "idle"]]
  /\ files = NoFiles
  /\ alter = NoAlter
  /\ gitCalls = <<>>
  /\ std = NoStd
  /\ fb = NoFallback
  /\ pf = EmptyPresetsFile
  /\ sh = NoScript
  /\ msgFile = NoMsgFile
  /\ cache = <<>>

\* The reference names the tip.
NamesTip(ref) == Resolve(objects, head, ref) = head

\* The caller calls rewrite_commit_message on the tip again with the same
\* message once the first call has returned.  The log keeps the steps of
\* the first call, followed by an entry for its result.
CallAgain(ref) ==
  /\ pc = "returned"
  /\ calls = 1
  /\ NamesTip(ref)
  /\ pc' = "rcm_verify"
  /\ target' = ref
  /\ headId' = 0
  /\ status' = -1
  /\ result' = "none"
  /\ log' = Logged("retry", IF result = "Ok" THEN 0 ELSE 1)
  /\ pre' = Snapshot
  /\ calls' = calls + 1
  /\ UNCHANGED <<repo, scripts, message, extra>>

NextRetry ==
  \/ \E ref \in Refs, m \in SuppliedMessages : NamesTip(ref) /\ Call(ref, m)
  \/ RcmVerify
  \/ IhcVerify
  \/ IhcResolveHead
  \/ IhcResolveTarget
  \/ Amend
  \/ \E ref \in Refs : CallAgain(ref)

SpecRetry == InitRetry /\ [][NextRetry]_vars

\* ------------------------------- the rewrite followed by the cache record
\* The repository of the tests before the call: three commits on one branch.
InitTrack ==
  /\ objects = <<Commit("t1", <<>>, <<"a">>, 0), Commit("t2", <<1>>, <<"a">>, 0),
                 Commit("t1", <<2>>, <<"a">>, 0)>>
  /\ head = 3
  /\ index = "t1"
  /\ rebasing = FALSE
  /\ now = 0
  /\ scripts = [f \in Scripts |-> "absent"]
  /\ pc = "idle"
  /\ target = HeadRef
  /\ message = <<>>
  /\ headId = 0
  /\ status = -1
  /\ result = "none"
  /\ log = <<>>
  /\ pre = [objects |-> <<>>, head |-> 0, index |-> NoTree, rebasing |-> FALSE]
  /\ calls = 0
  /\ InitRebase
  /\ inv = [i \in Invs |-> [pid |-> ThisPid, pc |-> "idle"]]
  /\ files = NoFiles
  /\ alter = NoAlter
  /\ gitCalls = <<>>
  /\ std = NoStd
  /\ fb = NoFallback
  /\ pf = EmptyPresetsFile
  /\ sh = NoScript
  /\ msgFile = NoMsgFile
  /\ cache = <<>>

\* The characters of a message: its lines with a newline between them.  A
\* line is one token and an empty line has no character.
RECURSIVE Chars(_)
Chars(m) ==
  IF m = <<>> THEN <<>>
  ELSE (IF Head(m) = "" THEN <<>> ELSE <<Head(m)>>)
         \o (IF Len(m) = 1 THEN <<>> ELSE <<"\n">> \o Chars(Tail(m)))

\* final_msg.chars().take(80).collect()
Preview(m) ==
  SubSeq(Chars(m), 1, IF Len(Chars(m)) < PreviewChars THEN Len(Chars(m)) ELSE PreviewChars)

\* cache::get_head_hash(): `git rev-parse HEAD` after the rewrite.
GetHeadHash == head

\* run_alter with commit tracking enabled, after rewrite_commit_message
\* returned Ok: the hash of HEAD and the preview of the message are
\* appended to the cache of the repository.
RecordAfterAlter ==
  /\ pc = "returned" /\ result = "Ok"
  /\ cache = <<>>
  /\ cache' = Append(cache, [hash |-> GetHeadHash,
                             message_preview |-> Preview(message)])
  /\ UNCHANGED <<single, conc, alt, std, fb, pf, sh, msgFile>>

NextTrack ==
  \/ \E ref \in Refs, m \in SuppliedMessages : Call(ref, m)
  \/ RcmVerify
  \/ IhcVerify
  \/ IhcResolveHead
  \/ IhcResolveTarget
  \/ Amend
  \/ CimVerify
  \/ CimParents
  \/ EnsureAncestorOfHead
  \/ WriteSeqScript
  \/ ChmodSeqScript
  \/ WriteMsgScript
  \/ ChmodMsgScript
  \/ Rebase
  \/ RemoveSeqScript
  \/ RemoveMsgScript
  \/ RewordReturn
  \/ RecordAfterAlter

SpecTrack == InitTrack /\ [][NextTrack]_vars

\* ------------------------------------------------- call_llm_with_fallback
\* The presets file is whatever presets.toml holds: load_presets does not
\* validate it, so the order may name an id twice or an id with no preset.
FallbackOrders == UNION {[1..n -> FbIds] : n \in 0..MaxOrder}

InitFallback ==
  /\ InitCall
  /\ InitRebase
  /\ inv = [i \in Invs |-> [pid |-> ThisPid, pc |-> "idle"]]
  /\ files = NoFiles
  /\ alter = NoAlter
  /\ gitCalls = <<>>
  /\ std = NoStd
  /\ \E enabled \in BOOLEAN, order \in FallbackOrders, presets \in [FbIds -> PresetKinds] :
       fb = FallbackLocals(enabled, order, presets)
  /\ pf = EmptyPresetsFile
  /\ sh = NoScript
  /\ msgFile = NoMsgFile
  /\ cache = <<>>

\* What call_llm_inner returns: Ok, or one of the variants of LlmCallError.
LlmOutcomes == {"Ok", "HttpError", "TransportError", "Other"}

\* preset.name of the preset with the given id.
PresetName(id) == <<"preset", id>>

\* call_llm_with_fallback returns Ok((msg, used)) or an error.
FallbackReturns(res, used) == [fb EXCEPT !.pc = "done", !.result = res, !.used = used]

\* call_llm_inner was called for the preset at position pos of the order.
InnerCalled(pos, id, out) == Append(fb.called, [pos |-> pos, id |-> id, out |-> out])

\* Where call_llm_with_fallback goes after the primary call: to the presets
\* only after an HTTP status error with fallback enabled.
AfterPrimary(out, enabled) == IF out = "HttpError" /\ enabled THEN "load" ELSE "done"

\* match call_llm_inner(cfg, system_prompt, diff) { .. }
CallPrimary ==
  /\ fb.pc = "primary"
  /\ \E out \in LlmOutcomes :
       fb' = [fb EXCEPT !.pc = AfterPrimary(out, fb.enabled),
                        !.called = InnerCalled(0, 0, out),
                        !.result = IF AfterPrimary(out, fb.enabled) # "done" THEN @
                                   ELSE IF out = "Ok" THEN "Ok" ELSE "Err"]
  /\ UNCHANGED <<single, conc, alt, std, pf, sh, msgFile, cache>>

\* load_presets() and the test for an empty order: each failure returns
\* the error of the primary call.
LoadPresets ==
  /\ fb.pc = "load"
  /\ \E loaded \in BOOLEAN :
       fb' = IF loaded /\ fb.order # <<>>
             THEN [fb EXCEPT !.pc = "loop", !.i = 1]
             ELSE FallbackReturns("Err", <<>>)
  /\ UNCHANGED <<single, conc, alt, std, pf, sh, msgFile, cache>>

\* Mutant of SkipPreset: only an id with no preset is skipped.
SkipPresetMissingOnly(kind) == kind = "none"

\* The two `continue`s before the call: no preset has the id, or the preset
\* matches the current configuration.
SkipPreset(kind) == kind \in {"none", "same"}

\* One iteration of `for &preset_id in &presets_file.fallback.order`.
FallbackStep ==
  /\ fb.pc = "loop" /\ fb.i <= Len(fb.order)
  /\ LET id == fb.order[fb.i]
     IN IF SkipPreset(fb.presets[id])
        THEN fb' = [fb EXCEPT !.i = @ + 1]
        ELSE \E out \in LlmOutcomes :
               fb' = IF out = "Ok"
                     THEN [FallbackReturns("Ok", PresetName(id))
                             EXCEPT !.called = InnerCalled(fb.i, id, out)]
                     ELSE IF out = "TransportError"
                     THEN [FallbackReturns("Err", <<>>)
                             EXCEPT !.called = InnerCalled(fb.i, id, out)]
                     ELSE [fb EXCEPT !.i = @ + 1,
                                     !.called = InnerCalled(fb.i, id, out)]
  /\ UNCHANGED <<single, conc, alt, std, pf, sh, msgFile, cache>>

\* bail!("All LLM providers failed: ..") after the loop.
FallbackExhausted ==
  /\ fb.pc = "loop" /\ fb.i > Len(fb.order)
  /\ fb' = FallbackReturns("Err", <<>>)
  /\ UNCHANGED <<single, conc, alt, std, pf, sh, msgFile, cache>>

NextFallback ==
  \/ CallPrimary
  \/ LoadPresets
  \/ FallbackStep
  \/ FallbackExhausted

SpecFallback == InitFallback /\ [][NextFallback]_vars

\* ------------------------------------------------------- the presets file
\* The values of the dedup key (provider, model, api_key, api_url) and the
\* names the user types.
PresetFields == {"f1", "f2"}
PresetNames == {"n1", "n2"}

InitPresets ==
  /\ InitCall
  /\ InitRebase
  /\ inv = [i \in Invs |-> [pid |-> ThisPid, pc |-> "idle"]]
  /\ files = NoFiles
  /\ alter = NoAlter
  /\ gitCalls = <<>>
  /\ std = NoStd
  /\ fb = NoFallback
  /\ pf = EmptyPresetsFile
  /\ sh = NoScript
  /\ msgFile = NoMsgFile
  /\ cache = <<>>

\* A preset name: what the user typed or the name made from the fields,
\* followed by " (copy)" as many times as `copies`.
Name(base, copies) == [base |-> base, copies |-> copies]

\* A name the user typed.
TypedName(b) == Name(<<"typed", b>>, 0)

\* format!("{}/{}", fields.provider, fields.model)
AutoName(fields) == Name(<<"auto", fields>>, 0)

\* format!("{} (copy)", preset.name)
CopyName(name) == [name EXCEPT !.copies = @ + 1]

\* Mutant of NewId: the id is the number of presets in the file.
NewIdFromLen(file) == Len(file.presets)

\* let id = file.next_id;
NewId(file) == file.next_id

\* create_preset: the file after the call.
CreatePreset(file, name, fields) ==
  [file EXCEPT !.next_id = @ + 1,
               !.presets = Append(@, [id |-> NewId(file), name |-> name, fields |-> fields])]

\* file.presets.iter().find(|p| p.id == id): its position, 0 when none.
FindPreset(file, id) ==
  IF \E i \in 1..Len(file.presets) : file.presets[i].id = id
  THEN CHOOSE i \in 1..Len(file.presets) :
         /\ file.presets[i].id = id
         /\ \A j \in 1..(i - 1) : file.presets[j].id # id
  ELSE 0

\* find_duplicate(file, fields).is_some()
HasDuplicate(file, fields) ==
  \E i \in 1..Len(file.presets) : file.presets[i].fields = fields

\* delete_preset: the file after the call.
DeletePreset(file, id) ==
  [file EXCEPT !.presets = SelectSeq(@, LAMBDA q : q.id # id),
               !.order = SelectSeq(@, LAMBDA fid : fid # id),
               !.deleted = IF FindPreset(file, id) # 0 THEN @ \cup {id} ELSE @]

\* rename_preset: the file after the call.
RenamePreset(file, id, name) ==
  IF FindPreset(file, id) = 0 THEN file
  ELSE [file EXCEPT !.presets[FindPreset(file, id)].name = name]

\* duplicate_preset: the file after the call (unchanged on "Preset not found").
DuplicatePreset(file, id) ==
  IF FindPreset(file, id) = 0 THEN file
  ELSE LET q == file.presets[FindPreset(file, id)]
       IN CreatePreset(file, CopyName(q.name), q.fields)

\* The loop of import_presets over the presets of the imported data.
RECURSIVE ImportPresets(_, _)
ImportPresets(file, data) ==
  IF data = <<>> THEN file
  ELSE IF HasDuplicate(file, Head(data).fields)
  THEN ImportPresets(file, Tail(data))
  ELSE ImportPresets(CreatePreset(file, Head(data).name, Head(data).fields), Tail(data))

\* What export_presets writes and import_presets reads: presets with id 0.
ImportedData ==
  UNION {[1..n -> [id : {0}, name : {TypedName(b) : b \in PresetNames}, fields : PresetFields]] :
           n \in 1..2}

\* The user creates a preset, with a typed name or the name made from the fields.
Create ==
  /\ pf.next_id < MaxIds
  /\ \E fields \in PresetFields,
        name \in {TypedName(b) : b \in PresetNames} \cup {AutoName(f) : f \in PresetFields} :
       /\ name.base[1] = "typed" \/ name = AutoName(fields)
       /\ pf' = CreatePreset(pf, name, fields)
  /\ UNCHANGED <<single, conc, alt, std, fb, sh, msgFile, cache>>

Delete ==
  /\ \E id \in 0..MaxIds : pf' = DeletePreset(pf, id)
  /\ UNCHANGED <<single, conc, alt, std, fb, sh, msgFile, cache>>

Rename ==
  /\ \E id \in 0..MaxIds, b \in PresetNames : pf' = RenamePreset(pf, id, TypedName(b))
  /\ UNCHANGED <<single, conc, alt, std, fb, sh, msgFile, cache>>

Duplicate ==
  /\ pf.next_id < MaxIds
  /\ \E id \in 0..MaxIds : pf' = DuplicatePreset(pf, id)
  /\ UNCHANGED <<single, conc, alt, std, fb, sh, msgFile, cache>>

Import ==
  /\ \E data \in ImportedData :
       /\ pf.next_id + Len(data) <= MaxIds
       /\ pf' = ImportPresets(pf, data)
  /\ UNCHANGED <<single, conc, alt, std, fb, sh, msgFile, cache>>

\* interactive_fallback_order, "Add preset": a preset that is not in the
\* order yet is appended to it.
AddToFallbackOrder ==
  /\ \E i \in 1..Len(pf.presets) :
       /\ \A k \in 1..Len(pf.order) : pf.order[k] # pf.presets[i].id
       /\ pf' = [pf EXCEPT !.order = Append(@, pf.presets[i].id)]
  /\ UNCHANGED <<single, conc, alt, std, fb, sh, msgFile, cache>>

NextPresets ==
  \/ Create
  \/ Delete
  \/ Rename
  \/ Duplicate
  \/ Import
  \/ AddToFallbackOrder

SpecPresets == InitPresets /\ [][NextPresets]_vars

\* ------------------------ invocations of reword_non_head_commit side by side
\* Each invocation runs in a process; two invocations may share a process
\* (two threads calling the library) or run in two.  The steps are those of
\* reword_non_head_commit with every file operation succeeding.
InitConc ==
  /\ InitCall
  /\ InitRebase
  /\ inv \in [Invs -> [pid : Pids, pc : {"idle"}]]
  /\ files = NoFiles
  /\ alter = NoAlter
  /\ gitCalls = <<>>
  /\ std = NoStd
  /\ fb = NoFallback
  /\ pf = EmptyPresetsFile
  /\ sh = NoScript
  /\ msgFile = NoMsgFile
  /\ cache = <<>>

\* The invocation moves from position p to position q.
Step(i, p, q) ==
  /\ inv[i].pc = p
  /\ inv' = [inv EXCEPT ![i].pc = q]

\* reword_non_head_commit is entered.
Enter(i) == Step(i, "idle", "write_seq") /\ UNCHANGED <<files, single, alt, std, side>>

\* write_sequence_editor_script / write_message_editor_script.
WriteHelper(i, f, p, q) ==
  /\ Step(i, p, q)
  /\ files' = [files EXCEPT ![ScriptPath(f, inv[i].pid)] = i]
  /\ UNCHANGED <<single, alt, std, side>>

\* cmd.status(): git rebase starts and reads both scripts until it exits.
RebaseStarts(i) == Step(i, "rebase", "in_rebase") /\ UNCHANGED <<files, single, alt, std, side>>
RebaseExits(i) == Step(i, "in_rebase", "rm_seq") /\ UNCHANGED <<files, single, alt, std, side>>

\* fs::remove_file of a helper script.
RemoveHelper(i, f, p, q) ==
  /\ Step(i, p, q)
  /\ files' = [files EXCEPT ![ScriptPath(f, inv[i].pid)] = 0]
  /\ UNCHANGED <<single, alt, std, side>>

NextConc ==
  \/ \E i \in Invs : Enter(i)
  \/ \E i \in Invs : WriteHelper(i, "seq", "write_seq", "write_msg")
  \/ \E i \in Invs : WriteHelper(i, "msg", "write_msg", "rebase")
  \/ \E i \in Invs : RebaseStarts(i)
  \/ \E i \in Invs : RebaseExits(i)
  \/ \E i \in Invs : RemoveHelper(i, "seq", "rm_seq", "rm_msg")
  \/ \E i \in Invs : RemoveHelper(i, "msg", "rm_msg", "done")

SpecConc == InitConc /\ [][NextConc]_vars

\* ------------------------------------------------------ the alter command
\* cli.rs: `alter` takes one or two HASH values (num_args = 1..=2).
AlterCommits == UNION {[1..n -> AlterRefs] : n \in 1..2}

InitAlter ==
  /\ InitCall
  /\ InitRebase
  /\ inv = [i \in Invs |-> [pid |-> ThisPid, pc |-> "idle"]]
  /\ files = NoFiles
  /\ \E commits \in AlterCommits, key \in {"", "k"}, dry \in BOOLEAN,
        track \in BOOLEAN, push \in {"never", "always", "ask"} :
       alter = AlterLocals(commits, key, dry, track, push)
  /\ gitCalls = <<>>
  /\ std = NoStd
  /\ fb = NoFallback
  /\ pf = EmptyPresetsFile
  /\ sh = NoScript
  /\ msgFile = NoMsgFile
  /\ cache = <<>>

\* run_alter calls fn with args.
Called(fn, args) == Append(gitCalls, [fn |-> fn, args |-> args])

\* run_alter returns res.
AlterReturns(res) == [alter EXCEPT !.pc = "done", !.result = res]

\* ensure_api_key(cfg)?
EnsureApiKey ==
  /\ alter.pc = "ensure_api_key"
  /\ alter' = IF alter.api_key = "" THEN AlterReturns("Err")
              ELSE [alter EXCEPT !.pc = "match"]
  /\ UNCHANGED <<gitCalls, single, conc, std, side>>

\* Mutant of AlterTarget: with two references the older one is the target.
AlterTargetOlder(commits) == commits[1]

\* The target the match on `commits` binds: `single`, or `newer` of two.
AlterTarget(commits) == commits[Len(commits)]

\* The diff call the match on `commits` makes.
AlterDiffCall(commits) ==
  IF Len(commits) = 1 THEN [fn |-> "get_commit_diff", args |-> commits]
  ELSE [fn |-> "get_range_diff", args |-> commits]

\* let (target, diff) = match commits { .. }; the diff call may fail.
MatchCommits ==
  /\ alter.pc = "match"
  /\ IF Len(alter.commits) \notin {1, 2}
     THEN alter' = AlterReturns("Err") /\ UNCHANGED gitCalls
     ELSE /\ gitCalls' = Called(AlterDiffCall(alter.commits).fn,
                                AlterDiffCall(alter.commits).args)
          /\ \E ok \in BOOLEAN :
               alter' = IF ok
                        THEN [alter EXCEPT !.pc = "is_head_commit",
                                           !.target = AlterTarget(alter.commits),
                                           !.diff = alter.commits]
                        ELSE AlterReturns("Err")
  /\ UNCHANGED <<single, conc, std, side>>

\* let target_is_head = git::is_head_commit(&target)?;
IsHeadCommit ==
  /\ alter.pc = "is_head_commit"
  /\ gitCalls' = Called("is_head_commit", <<alter.target>>)
  /\ \E r \in {"true", "false", "Err"} :
       alter' = IF r = "Err" THEN AlterReturns("Err")
                ELSE [alter EXCEPT !.pc = "commit_is_pushed",
                                   !.target_is_head = (r = "true")]
  /\ UNCHANGED <<single, conc, std, side>>

\* Mutant of AfterPushedCheck: the message is generated without asking.
AfterPushedCheckNoConfirm(pushed) == "generate"

\* `if target_is_pushed { let proceed = ui::confirm(..); .. }`: where
\* run_alter goes after commit_is_pushed.
AfterPushedCheck(pushed) == IF pushed THEN "confirm" ELSE "generate"

\* let target_is_pushed = git::commit_is_pushed(&target)?;
CommitIsPushed ==
  /\ alter.pc = "commit_is_pushed"
  /\ gitCalls' = Called("commit_is_pushed", <<alter.target>>)
  /\ \E r \in {"true", "false", "Err"} :
       alter' = IF r = "Err" THEN AlterReturns("Err")
                ELSE [alter EXCEPT !.pc = AfterPushedCheck(r = "true"),
                                   !.target_is_pushed = (r = "true")]
  /\ UNCHANGED <<single, conc, std, side>>

\* ui::confirm("Target commit appears to be pushed already ..").
ConfirmPushed ==
  /\ alter.pc = "confirm"
  /\ gitCalls' = Called("confirm", <<>>)
  /\ \E proceed \in BOOLEAN :
       alter' = IF proceed THEN [alter EXCEPT !.pc = "generate"]
                ELSE AlterReturns("Ok")
  /\ UNCHANGED <<single, conc, std, side>>

\* Mutant of AfterGenerate: the dry-run flag is not looked at.
AfterGenerateAlways(dry, q) == q

\* `if cli.dry_run { .. return Ok(()) }` after the message was generated:
\* the command ends there, or goes on at q.
AfterGenerate(dry, q) == IF dry THEN "done" ELSE q

\* The result of the dry-run return.
DryRunResult(dry, res) == IF dry THEN "Ok" ELSE res

\* let Some(final_msg) = generate_final_message(cfg, &diff, ..)? else return,
\* followed by the dry-run return.
GenerateFinalMessage ==
  /\ alter.pc = "generate"
  /\ gitCalls' = Called("generate_final_message", alter.diff)
  /\ \E r \in {"Some", "None", "Err"} :
       alter' = IF r = "Err" THEN AlterReturns("Err")
                ELSE IF r = "None" THEN AlterReturns("Ok")
                ELSE [alter EXCEPT !.pc = AfterGenerate(alter.dry_run, "rewrite"),
                                   !.final_msg = "m",
                                   !.result = DryRunResult(alter.dry_run, @)]
  /\ UNCHANGED <<single, conc, std, side>>

\* git::rewrite_commit_message(&target, &final_msg, ..)?
RewriteCommitMessage ==
  /\ alter.pc = "rewrite"
  /\ gitCalls' = Called("rewrite_commit_message", <<alter.target, alter.final_msg>>)
  /\ \E ok \in BOOLEAN :
       alter' = IF ok THEN [alter EXCEPT !.pc = "record"]
                ELSE AlterReturns("Err")
  /\ UNCHANGED <<single, conc, std, side>>

\* if cfg.track_generated_commits { .. cache::record_commit(..) }
RecordCommit ==
  /\ alter.pc = "record"
  /\ gitCalls' = IF alter.track
                 THEN Called("record_commit", <<"HEAD", alter.final_msg>>)
                 ELSE gitCalls
  /\ alter' = [alter EXCEPT !.pc = "push"]
  /\ UNCHANGED <<single, conc, std, side>>

\* Whether the code pushes: after a rewrite of a pushed commit it asks; else
\* handle_post_commit_push follows the configuration.
PushAsked == alter.target_is_pushed \/ alter.post_commit_push = "ask"

\* The push at the end of run_alter.
PushAfterAlter ==
  /\ alter.pc = "push"
  /\ \E yes \in BOOLEAN :
       LET push == IF PushAsked THEN yes ELSE alter.post_commit_push = "always"
       IN /\ gitCalls' = IF push THEN Called("run_push", <<>>) ELSE gitCalls
          /\ \E ok \in BOOLEAN :
               alter' = AlterReturns(IF push /\ ~ok THEN "Err" ELSE "Ok")
  /\ UNCHANGED <<single, conc, std, side>>

NextAlter ==
  \/ EnsureApiKey
  \/ MatchCommits
  \/ IsHeadCommit
  \/ CommitIsPushed
  \/ ConfirmPushed
  \/ GenerateFinalMessage
  \/ RewriteCommitMessage
  \/ RecordCommit
  \/ PushAfterAlter

SpecAlter == InitAlter /\ [][NextAlter]_vars

\* ---------------------------------------------- the standard commit command
\* run_standard_commit returns res.
StdReturns(res) == [std EXCEPT !.pc = "done", !.result = res]

\* ensure_api_key(cfg)?
StdEnsureApiKey ==
  /\ std.pc = "ensure_api_key"
  /\ std' = IF std.api_key = "" THEN StdReturns("Err")
            ELSE [std EXCEPT !.pc = "list_staged_files"]
  /\ UNCHANGED <<alt, single, conc, side>>

\* git::list_staged_files()? and the staged-files warning.
ListStagedFiles ==
  /\ std.pc = "list_staged_files"
  /\ \E ok \in BOOLEAN, go \in BOOLEAN :
       /\ gitCalls' = IF ok /\ std.warn
                      THEN Append(Called("list_staged_files", <<>>),
                                  [fn |-> "confirm", args |-> <<>>])
                      ELSE Called("list_staged_files", <<>>)
       /\ std' = IF ~ok THEN StdReturns("Err")
                 ELSE IF std.warn /\ ~go THEN StdReturns("Ok")
                 ELSE [std EXCEPT !.pc = "get_staged_diff"]
  /\ UNCHANGED <<alter, single, conc, side>>

\* git::get_staged_diff_filtered(..)?
GetStagedDiff ==
  /\ std.pc = "get_staged_diff"
  /\ gitCalls' = Called("get_staged_diff_filtered", <<>>)
  /\ \E ok \in BOOLEAN :
       std' = IF ok THEN [std EXCEPT !.pc = "generate"] ELSE StdReturns("Err")
  /\ UNCHANGED <<alter, single, conc, side>>

\* generate_final_message(..)? followed by the dry-run return.
StdGenerateFinalMessage ==
  /\ std.pc = "generate"
  /\ gitCalls' = Called("generate_final_message", <<"staged">>)
  /\ \E r \in {"Some", "None", "Err"} :
       std' = IF r = "Err" THEN StdReturns("Err")
              ELSE IF r = "None" THEN StdReturns("Ok")
              ELSE [std EXCEPT !.pc = AfterGenerate(std.dry_run, "run_commit"),
                               !.final_msg = "m",
                               !.result = DryRunResult(std.dry_run, @)]
  /\ UNCHANGED <<alter, single, conc, side>>

\* git::run_commit(&final_msg, ..)?
RunCommit ==
  /\ std.pc = "run_commit"
  /\ gitCalls' = Called("run_commit", <<std.final_msg>>)
  /\ \E ok \in BOOLEAN :
       std' = IF ok THEN [std EXCEPT !.pc = "record"] ELSE StdReturns("Err")
  /\ UNCHANGED <<alter, single, conc, side>>

\* if cfg.track_generated_commits { .. cache::record_commit(..) }
StdRecordCommit ==
  /\ std.pc = "record"
  /\ gitCalls' = IF std.track
                 THEN Called("record_commit", <<"HEAD", std.final_msg>>)
                 ELSE gitCalls
  /\ std' = [std EXCEPT !.pc = "tag"]
  /\ UNCHANGED <<alter, single, conc, side>>

\* if cli.tag { create_semver_tag(cfg)? }
CreateSemverTag ==
  /\ std.pc = "tag"
  /\ gitCalls' = IF std.tag THEN Called("create_semver_tag", <<>>) ELSE gitCalls
  /\ \E ok \in BOOLEAN :
       std' = IF std.tag /\ ~ok THEN StdReturns("Err")
              ELSE [std EXCEPT !.pc = "push"]
  /\ UNCHANGED <<alter, single, conc, side>>

\* handle_post_commit_push(cfg, "Commit created. Push now?")?
HandlePostCommitPush ==
  /\ std.pc = "push"
  /\ \E yes \in BOOLEAN :
       LET push == IF std.post_commit_push = "ask" THEN yes
                   ELSE std.post_commit_push = "always"
       IN /\ gitCalls' = IF push THEN Called("run_push", <<>>) ELSE gitCalls
          /\ \E ok \in BOOLEAN :
               std' = StdReturns(IF push /\ ~ok THEN "Err" ELSE "Ok")
  /\ UNCHANGED <<alter, single, conc, side>>

\* ------------------------------------------ the two message-writing commands
\* run(): `cgen [--dry-run] [--tag]` or `cgen [--dry-run] alter <HASH>..`.
InitCli ==
  /\ InitCall
  /\ InitRebase
  /\ inv = [i \in Invs |-> [pid |-> ThisPid, pc |-> "idle"]]
  /\ files = NoFiles
  /\ gitCalls = <<>>
  /\ fb = NoFallback
  /\ pf = EmptyPresetsFile
  /\ sh = NoScript
  /\ msgFile = NoMsgFile
  /\ cache = <<>>
  /\ \E key \in {"", "k"}, dry \in BOOLEAN, track \in BOOLEAN,
        push \in {"never", "always", "ask"} :
       \/ /\ std = NoStd
          /\ \E commits \in AlterCommits :
               alter = AlterLocals(commits, key, dry, track, push)
       \/ /\ alter = NoAlter
          /\ \E tag \in BOOLEAN, warn \in BOOLEAN :
               std = StdLocals(key, dry, track, tag, push, warn)

NextCli ==
  \/ EnsureApiKey
  \/ MatchCommits
  \/ IsHeadCommit
  \/ CommitIsPushed
  \/ ConfirmPushed
  \/ GenerateFinalMessage
  \/ RewriteCommitMessage
  \/ RecordCommit
  \/ PushAfterAlter
  \/ StdEnsureApiKey
  \/ ListStagedFiles
  \/ GetStagedDiff
  \/ StdGenerateFinalMessage
  \/ RunCommit
  \/ StdRecordCommit
  \/ CreateSemverTag
  \/ HandlePostCommitPush

SpecCli == InitCli /\ [][NextCli]_vars

\* ---------------------------- one call while another process uses the repository
\* The repository of the tests before the call: two commits on one branch.
InitRace ==
  /\ objects = <<Commit("t1", <<>>, <<"a">>, 0), Commit("t2", <<1>>, <<"a">>, 0)>>
  /\ head = 2
  /\ index = "t2"
  /\ rebasing = FALSE
  /\ now = 0
  /\ scripts = [f \in Scripts |-> "absent"]
  /\ pc = "idle"
  /\ target = HeadRef
  /\ message = <<>>
  /\ headId = 0
  /\ status = -1
  /\ result = "none"
  /\ log = <<>>
  /\ pre = [objects |-> <<>>, head |-> 0, index |-> NoTree, rebasing |-> FALSE]
  /\ calls = 0
  /\ InitRebase
  /\ inv = [i \in Invs |-> [pid |-> ThisPid, pc |-> "idle"]]
  /\ files = NoFiles
  /\ alter = NoAlter
  /\ gitCalls = <<>>
  /\ std = NoStd
  /\ fb = NoFallback
  /\ pf = EmptyPresetsFile
  /\ sh = NoScript
  /\ msgFile = NoMsgFile
  /\ cache = <<>>

\* The call is between its first and its last step.
InProgress == pc \notin {"idle", "returned"}

\* Another process commits a file (git add, git commit -m) between two
\* steps of the call: the git subprocesses of the call take no lock that
\* spans more than one of them.
OtherProcessCommits(t, m) ==
  /\ InProgress /\ ~rebasing
  /\ Len(objects) < MaxCommits
  /\ objects[head].tree # t
  /\ \E tm \in Times(now) :
       LET r == Commit(t, <<head>>, m, tm)
       IN /\ (tm = now) = ~Exists(objects, IdOf(objects, Commit(t, <<head>>, m, now)))
          /\ objects' = Store(objects, r)
          /\ head' = IdOf(objects, r)
          /\ index' = t
          /\ now' = tm
  /\ UNCHANGED <<rebasing, scripts, call, extra>>

NextRace ==
  \/ \E ref \in Refs, m \in SuppliedMessages : Call(ref, m)
  \/ RcmVerify
  \/ IhcVerify
  \/ IhcResolveHead
  \/ IhcResolveTarget
  \/ Amend
  \/ CimVerify
  \/ CimParents
  \/ EnsureAncestorOfHead
  \/ WriteSeqScript
  \/ ChmodSeqScript
  \/ WriteMsgScript
  \/ ChmodMsgScript
  \/ Rebase
  \/ RemoveSeqScript
  \/ RemoveMsgScript
  \/ RewordReturn
  \/ \E t \in Trees, m \in SetupMessages : OtherProcessCommits(t, m)

SpecRace == InitRace /\ [][NextRace]_vars

\* ------------------------------------------------------------ properties
LogHas(op, out) == \E i \in 1..Len(log) : log[i] = [op |-> op, out |-> out]
LogHasOp(op) == \E i \in 1..Len(log) : log[i].op = op

\* Every subprocess the call wanted to run could be started.
Started == \A i \in 1..Len(log) : log[i].out # -1

\* The rewrite subprocess of the call ran and exited.
RebaseExited == status \in {0, 1}

\* What the target named when the call started (0: no commit).
Target0 == Resolve(pre.objects, pre.head, target)

RemoveOp(f) == IF f = "seq" THEN "rw_rm_seq" ELSE "rw_rm_msg"
WriteOp(f) == IF f = "seq" THEN "rw_write_seq" ELSE "rw_write_msg"

\* C1 (as claimed): when the rebase has exited, with status zero or not,
\* neither helper script exists when reword_non_head_commit returns.
C1_Original ==
  (pc = "returned" /\ RebaseExited) => \A f \in Scripts : scripts[f] = "absent"

\* C1 (amended): when the rebase has exited, with status zero or not, the
\* removal of each helper script has been attempted when the call returns,
\* and a helper script exists then only if its removal failed.
C1_CleanupAfterExit ==
  (pc = "returned" /\ RebaseExited) =>
    \A f \in Scripts :
      /\ LogHasOp(RemoveOp(f))
      /\ scripts[f] # "absent" => LogHas(RemoveOp(f), 0)

\* C1 witness: the rebase stopped with a non-zero status, both removals
\* succeeded and no script is left at the return.
C1_Witness ==
  /\ pc = "returned" /\ status = 1 /\ rebasing
  /\ LogHas("rw_rm_seq", 1) /\ LogHas("rw_rm_msg", 1)
  /\ \A f \in Scripts : scripts[f] = "absent"

\* The call returned early from the scripted path, before the rebase ran:
\* the second script could not be written, a script could not be made
\* executable, or the rebase could not be started.
EarlyExit ==
  /\ pc = "returned"
  /\ \/ LogHas("rw_write_msg", 0)
     \/ LogHas("rw_chmod_seq", 0)
     \/ LogHas("rw_chmod_msg", 0)
     \/ LogHas("rw_rebase", -1)

\* C2: on every early-error exit of the scripted path before the rebase
\* runs, every helper script the call had created is deleted before the
\* call returns.
C2_EarlyExitCleansUp ==
  EarlyExit => \A f \in Scripts : LogHas(WriteOp(f), 1) => scripts[f] = "absent"

BeforeHas(i, op, out) == \E j \in 1..(i - 1) : log[j] = [op |-> op, out |-> out]

\* The is_head_commit comparison that precedes position i of the log.
ComparedBefore(i, equal) ==
  \E j, k \in 1..(i - 1) :
    /\ j < k
    /\ log[j].op = "ihc_head" /\ log[k].op = "ihc_target"
    /\ log[j].out > 0 /\ log[k].out > 0
    /\ (log[j].out = log[k].out) = equal

\* C3: no repository-mutating command is issued before classification is
\* complete: the amend only after the target resolved and was found equal
\* to HEAD; the rebase only after the target resolved, was found different
\* from HEAD, not a merge, and an ancestor of HEAD.
C3_ClassifiedBeforeMutation ==
  \A i \in 1..Len(log) :
    /\ log[i].op = "amend" =>
         /\ BeforeHas(i, "rcm_verify", 1)
         /\ ComparedBefore(i, TRUE)
    /\ log[i].op = "rw_rebase" =>
         /\ BeforeHas(i, "rcm_verify", 1)
         /\ ComparedBefore(i, FALSE)
         /\ \E j \in 1..(i - 1) : log[j].op = "cim_parents" /\ log[j].out \in {0, 1}
         /\ BeforeHas(i, "anc", 1)

\* C3 witness: a call whose rebase ran to a zero exit.
C3_Witness == pc = "returned" /\ LogHas("rw_rebase", 0) /\ result = "Ok"

\* C4: in one call at most one of the two strategies runs: the amend and
\* the rebase are never both invoked, error paths included.
C4_OneStrategy == ~(LogHasOp("amend") /\ LogHasOp("rw_rebase"))

\* C4 witness: the amend ran and failed, and the call returned its error.
C4_Witness ==
  pc = "returned" /\ LogHas("amend", 1) /\ result = "AmendFailed"

ScriptedPathEntered ==
  \E f \in Scripts : LogHasOp(WriteOp(f)) \/ LogHasOp("rw_rebase")

\* The target named a commit other than HEAD when the call started.
NonTipTarget == Target0 # 0 /\ Target0 # pre.head

TargetParents == Len(pre.objects[Target0].parents)

\* C5 (as claimed): for every target commit with more than one parent the
\* call returns the unsupported-merge error and the repository is as it
\* was before the call.
C5_Original ==
  (pc = "returned" /\ Started /\ Target0 # 0 /\ TargetParents > 1) =>
    result = "UnsupportedMerge" /\ Snapshot = pre

\* C5 (amended): for every target commit with more than one parent that is
\* not HEAD, the call returns the unsupported-merge error (when git could be
\* started) and the repository, its commits and their identities, is as it
\* was before the call.
C5_NonTipMergeRejected ==
  (pc = "returned" /\ NonTipTarget /\ TargetParents > 1) =>
    /\ Started => result = "UnsupportedMerge"
    /\ Snapshot = pre
    /\ ~LogHasOp("amend") /\ ~ScriptedPathEntered

\* C5 witness: a call on a merge commit that is not HEAD has returned the
\* unsupported-merge error.
C5_Witness ==
  /\ pc = "returned" /\ result = "UnsupportedMerge"
  /\ NonTipTarget /\ TargetParents = 2

\* C6: for every existing non-merge target that is not an ancestor of HEAD
\* the call returns the not-on-current-branch error (when git could be
\* started), creates no helper script, never invokes the rebase and leaves
\* the repository unchanged; HEAD itself passes the ancestry check.
C6_NonAncestorRejected ==
  /\ (/\ NonTipTarget /\ TargetParents <= 1
      /\ ~(Target0 \in Ancestors(pre.objects, pre.head))) =>
       /\ ~ScriptedPathEntered /\ ~LogHasOp("amend")
       /\ pc = "returned" => /\ Snapshot = pre
                             /\ Started => result = "NotOnBranch"
  /\ head # 0 => AfterAncestor(IsAncestor(objects, head, head)) = "rw_write_seq"

\* C6 witness: a call on a commit of a diverged branch has returned the
\* not-on-current-branch error.
C6_Witness ==
  /\ pc = "returned" /\ result = "NotOnBranch"
  /\ NonTipTarget /\ ~(Target0 \in Ancestors(pre.objects, pre.head))

\* C7: if the target names no existing commit the call fails with the
\* unknown-commit error (when git could be started) before any other check
\* runs; neither the amend nor the rebase is invoked, no helper script is
\* created and the repository is unchanged.
C7_UnknownCommitFirst ==
  (calls > 0 /\ pc # "rcm_verify" /\ Target0 = 0) =>
    /\ pc = "returned"
    /\ Len(log) <= 1 /\ \A i \in 1..Len(log) : log[i].op = "rcm_verify"
    /\ ~LogHasOp("amend") /\ ~ScriptedPathEntered
    /\ Snapshot = pre
    /\ (pc = "returned" /\ Started) => result = "UnknownCommit"

\* C7 witness: a call on a hash that names no object has returned the
\* unknown-commit error in a repository that has commits.
C7_Witness ==
  /\ pc = "returned" /\ result = "UnknownCommit"
  /\ head # 0 /\ target.kind = "full"

\* The target is the tip or a single-parent ancestor of the tip.
Admissible ==
  /\ Target0 # 0
  /\ \/ Target0 = pre.head
     \/ TargetParents = 1 /\ Target0 \in Ancestors(pre.objects, pre.head)

\* C8: every target that is neither the tip nor a single-parent ancestor of
\* the tip (a merge, a non-ancestor, a parentless root that is not the tip)
\* is rejected before any helper script is created and before the rebase
\* is invoked.
C8_GuardsRejectInadmissible ==
  (calls > 0 /\ ~Admissible) =>
    /\ \A f \in Scripts : ~LogHas(WriteOp(f), 1)
    /\ ~LogHasOp("rw_rebase")

\* C9: whenever the target resolves to the identity of HEAD, however it is
\* spelled, the call takes the amend path and evaluates neither the
\* parent-count check nor the ancestry check; whenever it resolves to
\* another identity the amend path is not taken.
C9_TipByIdentity ==
  /\ (Target0 # 0 /\ Target0 = pre.head) =>
       /\ ~LogHasOp("cim_verify") /\ ~LogHasOp("cim_parents") /\ ~LogHasOp("anc")
       /\ ~ScriptedPathEntered
       /\ (pc = "returned" /\ Started) => LogHasOp("amend")
  /\ (Target0 = 0 \/ Target0 # pre.head) => ~LogHasOp("amend")

\* C9 witness: the tip, named by an abbreviated hash, has been amended.
C9_Witness ==
  /\ pc = "returned" /\ target.kind = "short" /\ Target0 = pre.head
  /\ LogHas("amend", 0)

\* C10: after a successful tip rewrite, for every repository state at the
\* time of the call, staged changes included, the new tip has the supplied
\* message, a different identity, and the tree and the parents the tip had
\* before the call.
C10_TipRewriteFrame ==
  (pc = "returned" /\ result = "Ok" /\ LogHas("amend", 0)) =>
    /\ objects[head].msg = message
    /\ head # pre.head
    /\ objects[head].tree = pre.objects[pre.head].tree
    /\ objects[head].parents = pre.objects[pre.head].parents

\* The first-parent line of history that ends at commit c, root first.
RECURSIVE Chain(_, _)
Chain(objs, c) ==
  IF c = 0 THEN <<>>
  ELSE Chain(objs, IF objs[c].parents = <<>> THEN 0 ELSE objs[c].parents[1]) \o <<c>>

\* The scripted rewrite of the call ran and the call returned success.
RewordedOk == pc = "returned" /\ result = "Ok" /\ LogHas("rw_rebase", 0)

\* C11: when the rewrite of a non-tip, non-merge ancestor target returns
\* success, the history reachable from HEAD has as many commits as before,
\* the commit at the target's position has the supplied message, and every
\* commit of the replayed range has the tree of its counterpart.
C11_RewordPreservesHistory ==
  RewordedOk =>
    LET old == Chain(pre.objects, pre.head)
        new == Chain(objects, head)
    IN /\ Cardinality(Ancestors(objects, head))
            = Cardinality(Ancestors(pre.objects, pre.head))
       /\ Len(new) = Len(old)
       /\ \A i \in 1..Len(old) :
            /\ i <= Len(new) => objects[new[i]].tree = pre.objects[old[i]].tree
            /\ (i <= Len(new) /\ old[i] = Target0) => objects[new[i]].msg = message

\* C12: a rewrite, by either path and successful or not, changes no commit
\* that is a strict ancestor of the target: each keeps its identity with
\* its message, tree and parents and stays in the history of HEAD it was
\* in, and every commit the repository held, reachable from HEAD or not,
\* is left as it was.
C12_AncestorsUntouched ==
  calls > 0 =>
    /\ Len(objects) >= Len(pre.objects)
    /\ SubSeq(objects, 1, Len(pre.objects)) = pre.objects
    /\ Target0 # 0 =>
         \A c \in Ancestors(pre.objects, Target0) \ {Target0} :
           c \in Ancestors(pre.objects, pre.head) => c \in Ancestors(objects, head)

\* C12 witness: a scripted rewrite that returned success moved HEAD to a
\* new commit while the target had a strict ancestor with a parent of its
\* own.
C12_Witness ==
  /\ RewordedOk /\ head # pre.head
  /\ \E c \in Ancestors(pre.objects, Target0) \ {Target0} :
       pre.objects[c].parents # <<>>

\* Positions at which the script's output differs from its input.
ChangedLines == {i \in 1..Len(todoIn) : todoOut[i] # todoIn[i]}

PickPositions == {i \in 1..Len(todoIn) : todoIn[i].action = "pick"}

C14_FirstEntryIsTarget ==
  (edited /\ LogHas("anc", 1)) =>
    /\ PickPositions # {}
    /\ \A i \in PickPositions :
         (\A j \in PickPositions : i <= j) => todoIn[i].c = Target0
    /\ \A i \in 1..Len(todoOut) :
         todoOut[i].action = "reword" => todoOut[i].c = Target0

\* Position of the rebase in the log of the call (0: it was not run).
RebaseAt == IF LogHasOp("rw_rebase")
            THEN CHOOSE i \in 1..Len(log) : log[i].op = "rw_rebase" ELSE 0

\* C15: when the rebase exits with a non-zero status the call returns the
\* rewrite-conflict error, issues no further repository command (no abort,
\* continue or rollback: only the two script removals follow) and leaves
\* the repository as the rebase left it.
C15_NoRecoveryAfterFailedRebase ==
  /\ [](LogHas("rw_rebase", 1) =>
          /\ \A i \in (RebaseAt + 1)..Len(log) : log[i].op \in {"rw_rm_seq", "rw_rm_msg"}
          /\ pc = "returned" => result = "RewriteConflict")
  /\ [][LogHas("rw_rebase", 1) =>
          UNCHANGED <<objects, head, index, rebasing>>]_vars

\* C15 witness: the rebase stopped after it had moved HEAD, and the call
\* returned the rewrite-conflict error with the rebase still in progress.
C15_Witness ==
  /\ pc = "returned" /\ LogHas("rw_rebase", 1) /\ result = "RewriteConflict"
  /\ rebasing /\ head # pre.head

\* A helper script could not be created or could not be made executable.
ScriptSetupFailed ==
  \E op \in {"rw_write_seq", "rw_chmod_seq", "rw_write_msg", "rw_chmod_msg"} :
    LogHas(op, 0)

\* C16: if creating a helper script or setting its executable permission
\* fails, the call returns an error and the rebase is never invoked, so
\* commits, HEAD, index and rebase state are as they were before the call.
C16_ScriptFailureLeavesRepository ==
  ScriptSetupFailed =>
    /\ pc = "returned" /\ result = "IoError"
    /\ ~LogHasOp("rw_rebase")
    /\ Snapshot = pre

\* C16 witness: the message editor could not be made executable after the
\* three file operations before it had succeeded.
C16_Witness ==
  /\ pc = "returned" /\ LogHas("rw_chmod_msg", 0)
  /\ LogHas("rw_write_seq", 1) /\ LogHas("rw_chmod_seq", 1) /\ LogHas("rw_write_msg", 1)

\* C17: the message reaches the helper scripts only through the
\* environment variable: the script bodies written and the arguments of
\* the rebase command are those of a call with any other message, the two
\* editor variables too, and the message is the value of CGEN_NEW_MESSAGE.
C17_MessageOnlyInEnvironment ==
  \A m2 \in SuppliedMessages :
    /\ \A f \in Scripts : bodies[f] # <<>> => bodies[f] = ScriptBody(f, m2)
    /\ cmd # <<>> =>
         /\ cmd.args = RebaseCommand(target, m2).args
         /\ cmd.env.GIT_SEQUENCE_EDITOR = RebaseCommand(target, m2).env.GIT_SEQUENCE_EDITOR
         /\ cmd.env.GIT_EDITOR = RebaseCommand(target, m2).env.GIT_EDITOR
         /\ cmd.env.CGEN_NEW_MESSAGE = message

\* C17 witness: both scripts were written and the rebase command was built
\* in a call whose message has a comment line.
C17_Witness ==
  /\ cmd # <<>> /\ message = <<"#c", "b">>
  /\ \A f \in Scripts : bodies[f] # <<>>

\* C18: a failure to delete a helper script never changes the result: once
\* the rebase has exited, the call returns success exactly when the exit
\* status was zero and the rewrite-conflict error exactly when it was not,
\* whether or not either removal succeeded.
C18_RemovalNeverChangesResult ==
  (pc = "returned" /\ (LogHas("rw_rebase", 0) \/ LogHas("rw_rebase", 1))) =>
    /\ result = "Ok" <=> LogHas("rw_rebase", 0)
    /\ result = "RewriteConflict" <=> LogHas("rw_rebase", 1)

\* C18 witness: the rebase exited with status zero, both removals failed
\* and the call returned success.
C18_Witness ==
  /\ pc = "returned" /\ LogHas("rw_rebase", 0) /\ result = "Ok"
  /\ LogHas("rw_rm_seq", 0) /\ LogHas("rw_rm_msg", 0)

\* An invocation overlaps in time with another while it is between its
\* entry and its return.
Active(i) == inv[i].pc \notin {"idle", "done"}
PathsOf(i) == {ScriptPath(f, inv[i].pid) : f \in Scripts}

\* No step of another invocation writes or removes a script of an
\* invocation whose rebase is running.
UsedScriptsKept(i) ==
  (inv[i].pc = "in_rebase" /\ inv'[i].pc = "in_rebase") =>
    \A path \in PathsOf(i) : files'[path] = files[path]

RewriteCalls == SelectSeq(gitCalls, LAMBDA c : c.fn = "rewrite_commit_message")

\* C20: when alter is given two references the rewrite target is the
\* second one and the first is used only to compute the diff (it is passed
\* to get_range_diff, whose result goes to the message generation, and to
\* no other call); in every run rewrite_commit_message is called at most
\* once, with one target.
C20_SecondIsTarget ==
  /\ Len(RewriteCalls) <= 1
  /\ \A i \in 1..Len(gitCalls) :
       /\ gitCalls[i].fn \in {"rewrite_commit_message", "is_head_commit",
                              "commit_is_pushed"} =>
            gitCalls[i].args[1] = alter.commits[Len(alter.commits)]
       /\ (Len(alter.commits) = 2 /\ alter.commits[1] # alter.commits[2]
             /\ gitCalls[i].fn \notin {"get_range_diff", "generate_final_message"}) =>
            \A k \in 1..Len(gitCalls[i].args) : gitCalls[i].args[k] # alter.commits[1]

\* C20 witness: alter was given two different references and has called
\* rewrite_commit_message.
C20_Witness ==
  /\ Len(alter.commits) = 2 /\ alter.commits[1] # alter.commits[2]
  /\ Len(RewriteCalls) = 1 /\ alter.pc = "done" /\ alter.result = "Ok"

\* The dry-run flag of the command that is running.
DryRun == IF alter.pc # "off" THEN alter.dry_run ELSE std.dry_run

\* The calls that change the repository, its remote or the commit cache.
MutatingCalls == {"run_commit", "rewrite_commit_message", "create_semver_tag",
                  "run_push", "record_commit"}

\* C21: with the dry-run flag set neither the standard commit flow nor the
\* alter flow mutates the repository: git commit, rewrite_commit_message,
\* tag creation, push and the commit-cache record are never called.
C21_DryRunMutatesNothing ==
  DryRun => \A i \in 1..Len(gitCalls) : gitCalls[i].fn \notin MutatingCalls

\* C21 witness: a dry run of either command generated its message and
\* returned success.
C21_Witness ==
  /\ DryRun
  /\ \/ alter.pc = "done" /\ alter.result = "Ok" /\ alter.final_msg = "m"
     \/ std.pc = "done" /\ std.result = "Ok" /\ std.final_msg = "m"

\* Both helper scripts were written and made executable before position i.
ScriptsReadyBefore(i) ==
  \A op \in {"rw_write_seq", "rw_chmod_seq", "rw_write_msg", "rw_chmod_msg"} :
    BeforeHas(i, op, 1)

\* The order of the steps that occur: the rebase after both scripts are
\* ready, each removal after the rebase has exited.
StepsInOrder ==
  \A i \in 1..Len(log) :
    /\ log[i].op = "rw_rebase" => ScriptsReadyBefore(i)
    /\ log[i].op \in {"rw_rm_seq", "rw_rm_msg"} =>
         (BeforeHas(i, "rw_rebase", 0) \/ BeforeHas(i, "rw_rebase", 1))

\* C22: within one call of the scripted path both helper scripts are
\* written and made executable before the rebase is started, the rebase
\* has exited before either script is removed, and the call returns its
\* result only after both removals have been attempted.
C22_FixedOrder ==
  /\ StepsInOrder
  /\ (pc = "returned" /\ ScriptedPathEntered) =>
       LogHasOp("rw_rm_seq") /\ LogHasOp("rw_rm_msg")

\* The identity the target resolved to in the comparison of is_head_commit.
ClassifiedId ==
  LET i == CHOOSE i \in 1..Len(log) : log[i].op = "ihc_target" IN log[i].out

\* C23: the commit whose message a call changes is the commit the target
\* reference resolved to when the call classified it, also when another
\* process moves HEAD between the classification and the mutating command:
\* a successful amend replaces the classified commit, and a rebase that
\* runs bounds its range by the parent of the classified commit.
C23_RewrittenIsClassified ==
  [][/\ (pc = "amend" /\ log' = Logged("amend", 0)) => head = ClassifiedId
     /\ (pc = "rw_rebase" /\ edited') =>
          Resolve(objects, head, target) = ClassifiedId]_vars

\* The step-list file is whole: the list the script was started on, or that
\* list transformed.
TodoWhole == sh.todo \in {sh.orig, SeqEditorScript(sh.orig)}

FirstRunWhole == (sh.pc # "off" /\ sh.runs = 1) => TodoWhole

\* The characters of a file of the given lines: every line is followed by a
\* newline.  A line is one token and an empty line has no character.
RECURSIVE FileText(_)
FileText(lines) ==
  IF lines = <<>> THEN <<>>
  ELSE (IF Head(lines) = "" THEN <<>> ELSE <<Head(lines)>>) \o <<"\n">>
         \o FileText(Tail(lines))

\* The characters of a message: its lines with a newline between them.
MessageText(m) ==
  IF m = <<>> THEN <<>> ELSE SubSeq(FileText(m), 1, Len(FileText(m)) - 1)

\* C25: after the message-editor script has run, the file it was handed
\* holds the replacement message followed by one newline and nothing else,
\* whatever the file held before.
C25_FileIsMessage ==
  msgFile.pc = "done" => FileText(msgFile.lines) = MessageText(msgFile.env) \o <<"\n">>

C25_Witness ==
  /\ msgFile.pc = "done"
  /\ msgFile.old = <<"a", "#c">>
  /\ msgFile.env = <<"", "b">>
  /\ msgFile.lines = <<"", "b">>

\* Number of commits reachable from commit c.
Reachable(objs, c) == Cardinality(Ancestors(objs, c))

\* Two commits have the same message, tree and parents.
SameContent(a, b) ==
  /\ objects[a].msg = objects[b].msg
  /\ objects[a].tree = objects[b].tree
  /\ objects[a].parents = objects[b].parents

\* C26: a call of rewrite_commit_message on the tip leaves the number of
\* commits reachable from HEAD as it was, and a second call on the tip
\* with the same message after a first one that succeeded leaves a tip
\* with the message, tree and parents the first call gave it.
C26_TipRetryIdempotent ==
  (pc = "returned" /\ LogHasOp("amend")) =>
    /\ Reachable(objects, head) = Reachable(pre.objects, pre.head)
    /\ (calls = 2 /\ LogHas("retry", 0)) => SameContent(head, pre.head)

C26_Witness ==
  /\ pc = "returned" /\ calls = 2 /\ result = "Ok"
  /\ LogHas("retry", 0)
  /\ head # pre.head
  /\ pre.head # 2
  /\ objects[head].msg = <<"b">>

\* Position i of the calls of the command is preceded by a call of fn.
CalledBefore(i, fn) == \E j \in 1..(i - 1) : gitCalls[j].fn = fn

\* The user answered no to the pushed-commit confirmation: the command
\* ended with that question as its last call.
Declined ==
  /\ alter.pc = "done" /\ gitCalls # <<>>
  /\ gitCalls[Len(gitCalls)].fn = "confirm"

\* C27: in the alter flow, when the target is detected as pushed the
\* confirmation is asked before the message is generated; when the user
\* declines, rewrite_commit_message and every other mutating call is never
\* made and the command returns success; and the target and message that
\* rewrite_commit_message is given are the same whether or not the target
\* is pushed.
C27_PushedConfirmedBeforeGenerate ==
  /\ \A i \in 1..Len(gitCalls) :
       /\ (alter.target_is_pushed /\ gitCalls[i].fn = "generate_final_message") =>
            /\ CalledBefore(i, "confirm")
            /\ CalledBefore(i, "commit_is_pushed")
       /\ gitCalls[i].fn = "confirm" =>
            /\ alter.target_is_pushed
            /\ ~CalledBefore(i, "generate_final_message")
       /\ gitCalls[i].fn = "rewrite_commit_message" =>
            gitCalls[i].args = <<AlterTarget(alter.commits), alter.final_msg>>
  /\ Declined =>
       /\ alter.result = "Ok"
       /\ \A i \in 1..Len(gitCalls) :
            gitCalls[i].fn \notin MutatingCalls \cup {"generate_final_message"}

\* C27 witness: the target was pushed, the user confirmed, and the rewrite
\* was called after the message was generated.
C27_Witness ==
  /\ alter.target_is_pushed
  /\ Len(RewriteCalls) = 1
  /\ \E i \in 1..Len(gitCalls) : gitCalls[i].fn = "confirm"
  /\ alter.pc = "done" /\ alter.result = "Ok"

\* The commit of a cache entry carries the message of the call, as git
\* stored it (cleaned up), and the entry has the preview of that message.
EntryCarriesMessage(e) ==
  /\ Exists(objects, e.hash)
  /\ objects[e.hash].msg \in {CleanupWhitespace(message), CleanupStrip(message)}
  /\ e.message_preview = Preview(message)

\* C28: after a successful alter with commit tracking enabled, the entry
\* appended to the commit cache pairs the preview of the generated message
\* with the identity of the commit that now carries that message, for a
\* tip target and for a non-tip target.
C28_EntryNamesRewrittenCommit ==
  \A i \in 1..Len(cache) : EntryCarriesMessage(cache[i])

\* The same for the tip path alone.
TipEntryCarriesMessage ==
  LogHas("amend", 0) => \A i \in 1..Len(cache) : EntryCarriesMessage(cache[i])

\* The calls made for presets, in order (the first call is the primary one).
FallbackCalls == SelectSeq(fb.called, LAMBDA c : c.pos # 0)

PresetIds == {pf.presets[i].id : i \in 1..Len(pf.presets)}

\* C30: after any sequence of create_preset, duplicate_preset,
\* import_presets, rename_preset and delete_preset from an empty presets
\* file, the ids of the presets are pairwise distinct and less than
\* next_id, and no preset has an id that was deleted.
C30_IdsDistinctAndFresh ==
  /\ \A i, j \in 1..Len(pf.presets) : i # j => pf.presets[i].id # pf.presets[j].id
  /\ \A id \in PresetIds : id < pf.next_id
  /\ PresetIds \cap pf.deleted = {}

\* C30 witness: a preset was deleted, and a copy and another preset were
\* created after it.
C30_Witness ==
  /\ pf.deleted # {}
  /\ \E i, j \in 1..Len(pf.presets) :
       /\ i # j
       /\ pf.presets[i].name.copies > 0
       /\ \A d \in pf.deleted : pf.presets[i].id > d /\ pf.presets[j].id > d
====
